---- MODULE Spec2Model ----
(***************************************************************************)
(* MCPGuardian: the discovery pipeline (source hits -> normalize_candidate *)
(* -> merge_candidates) of src/harvest/discovery and the manifest          *)
(* fingerprint / delta tracker of src/mcp_harvest/storage.                 *)
(*                                                                         *)
(* Conventions.                                                            *)
(*  - A Python str of free text (a URL, a name, a description) is a       *)
(*    sequence of tokens (characters or words) on which strip and lower    *)
(*    work token by token; <<>> is the falsy value of the field (None for  *)
(*    an Optional URL, "" for a str).                                      *)
(*  - An Optional object is a sequence of length 0 (None) or 1.            *)
(*  - sorted() on str compares by code point; the strings the model uses   *)
(*    are listed in code-point order in StrOrder.                          *)
(*  - sha256 is collision free: a digest is identified with the text that  *)
(*    was hashed.                                                          *)
(***************************************************************************)
EXTENDS Integers, Sequences, FiniteSets, TLC

VARIABLES
    pc,        \* position of the discovery run: "start", "cands", "merged", "merged2"
    hits,      \* the SourceHits the adapters returned (run.py: hits)
    orig,      \* the candidate list as it was handed to merge_candidates
    cands,     \* the same list of objects after merge_candidates ran (it mutates them)
    merged,    \* merge_candidates(cands)
    merged2,   \* merge_candidates(merged)
    store,     \* data/manifests/<server_id>.json: <<>> (no file) or <<manifest>>
    last,      \* the last update_fingerprint_and_delta call and what it returned
    helper,    \* the fetch helper the concurrent tasks call
    task,      \* per task: where its call of the helper stands, and the attempt
    sem,       \* permits left in the helper's semaphore
    stage,     \* discover(): the adapter awaited next, or how the call ended
    ran,       \* the adapters whose search was called
    failed,    \* the adapters whose search raised
    files,     \* the data directory: the text of every file that exists
    proc,      \* per concurrent update_fingerprint_and_delta call: its position
    export,    \* the write_jsonl call of a discovery run: its position
    seen,      \* what a reader of the file got, <<>> before it read
    lastAppend, \* the last append_deltas call: the log before it, and its rows
    ranking,   \* score_candidates and the re-ranking step of discover(): its position
    audit,     \* a score_server call: the evidence and what it returned
    crawl,     \* the crawl command: the registries' content and the run's position
    journal    \* every update_fingerprint_and_delta call the crawl runs made

fetchVars == <<helper, task, sem>>
fanVars == <<stage, ran, failed>>
fileVars == <<files, proc, export, seen, lastAppend>>
scoreVars == <<ranking, audit>>
crawlVars == <<crawl, journal>>

vars == <<pc, hits, orig, cands, merged, merged2, store, last, fetchVars, fanVars,
          fileVars, scoreVars, crawlVars>>

discoverVars == <<pc, hits, orig, cands, merged, merged2>>
manifestVars == <<store, last>>

\* The parts of the state a specification does not exercise stay as they
\* are here.
FetchIdle == helper = <<>> /\ task = <<>> /\ sem = 0
FanIdle == stage = "idle" /\ ran = {} /\ failed = {}
FilesIdle ==
    files = <<>> /\ proc = <<>> /\ export = <<>> /\ seen = <<>> /\ lastAppend = <<>>
ScoreIdle == ranking = <<>> /\ audit = <<>>
CrawlIdle == crawl = <<>> /\ journal = <<>>

-----------------------------------------------------------------------------
(* Generic helpers *)

ToSet(s) == {s[i] : i \in 1..Len(s)}

\* Python's str order (code points) on the strings the model sorts.
StrOrder ==
    << "api key", "auth_required", "bearer", "danger_terms", "description",
       "display_name", "env_vars", "fetch", "github", "homepage", "http",
       "install", "last_seen_iso", "license", "maintainer", "npm", "oauth",
       "pypi", "registries", "runtime", "search", "source_repo", "sse",
       "stdio", "tags", "tools", "transports" >>

\* sorted(set(...)): the ascending, duplicate-free list of the set S.
sorted(S) == SelectSeq(StrOrder, LAMBDA x : x \in S)

-----------------------------------------------------------------------------
(* str.strip() and str.lower() on character sequences *)

IsSpace(ch) == ch = " "

UpperCase ==
    << "A", "B", "C", "D", "E", "F", "G", "H", "I", "J", "K", "L", "M", "N", "O", "P",
       "Q", "R", "S", "T", "U", "V", "W", "X", "Y", "Z" >>
LowerCase ==
    << "a", "b", "c", "d", "e", "f", "g", "h", "i", "j", "k", "l", "m", "n", "o", "p",
       "q", "r", "s", "t", "u", "v", "w", "x", "y", "z" >>

lower_char(ch) ==
    IF \E i \in 1..Len(UpperCase) : UpperCase[i] = ch
    THEN LowerCase[CHOOSE i \in 1..Len(UpperCase) : UpperCase[i] = ch]
    ELSE ch

lower(s) == [i \in 1..Len(s) |-> lower_char(s[i])]

RECURSIVE lstrip(_)
lstrip(s) == IF s # <<>> /\ IsSpace(Head(s)) THEN lstrip(Tail(s)) ELSE s

RECURSIVE rstrip(_)
rstrip(s) ==
    IF s # <<>> /\ IsSpace(s[Len(s)]) THEN rstrip(SubSeq(s, 1, Len(s) - 1)) ELSE s

strip(s) == rstrip(lstrip(s))

\* a or b  on strings: the first truthy (non-empty) operand, else the last.
Or(a, b) == IF a # <<>> THEN a ELSE b

-----------------------------------------------------------------------------
(* harvest/discovery/merge.py *)

\* key() without the lower-casing.
key_case_sensitive(c) == strip(Or(Or(Or(c.repo_url, c.homepage), c.name), <<>>))

\* key(c): (str(c.repo_url or c.homepage or c.name or "")).strip().lower()
key(c) == lower(strip(Or(Or(Or(c.repo_url, c.homepage), c.name), <<>>)))

\* dict.update: later entries win on a key collision.
dict_update(a, b) ==
    [k \in (DOMAIN a) \cup (DOMAIN b) |-> IF k \in DOMAIN b THEN b[k] ELSE a[k]]

\* A merge body that skips provenance entries base already holds.
merge_into_dedup_provenance(base, c) ==
    [base EXCEPT
        !.description = Or(base.description, c.description),
        !.sdk         = IF base.sdk # "unknown" THEN base.sdk ELSE c.sdk,
        !.transports  = sorted(ToSet(base.transports \o c.transports)),
        !.auth        = sorted(ToSet(base.auth \o c.auth)),
        !.tools       = sorted(ToSet(base.tools \o c.tools)),
        !.registries  = sorted(ToSet(base.registries \o c.registries)),
        !.signals     = dict_update(base.signals, c.signals),
        !.provenance  = base.provenance \o
                           SelectSeq(c.provenance, LAMBDA h : h \notin ToSet(base.provenance)),
        !.risk_flags  = sorted(ToSet(base.risk_flags \o c.risk_flags))]

\* The body of "if k in by_key:" -- base is mutated with what c carries.
merge_into(base, c) ==
    [base EXCEPT
        !.description = Or(base.description, c.description),
        !.sdk         = IF base.sdk # "unknown" THEN base.sdk ELSE c.sdk,
        !.transports  = sorted(ToSet(base.transports \o c.transports)),
        !.auth        = sorted(ToSet(base.auth \o c.auth)),
        !.tools       = sorted(ToSet(base.tools \o c.tools)),
        !.registries  = sorted(ToSet(base.registries \o c.registries)),
        !.signals     = dict_update(base.signals, c.signals),
        !.provenance  = base.provenance \o c.provenance,
        !.risk_flags  = sorted(ToSet(base.risk_flags \o c.risk_flags))]

\* by_key is an insertion-ordered dict: a sequence of [k, ref], ref the
\* position in the input list of the object stored under k.
HasKey(by_key, k) == \E j \in 1..Len(by_key) : by_key[j].k = k
Lookup(by_key, k) == by_key[CHOOSE j \in 1..Len(by_key) : by_key[j].k = k].ref

\* A setdefault-style loop body that merges a first sighting into itself.
merge_one_self_merge(st, i) ==
    LET c == st.heap[i]
        k == key(c)
    IN  IF HasKey(st.by_key, k)
        THEN LET b == Lookup(st.by_key, k)
             IN  [st EXCEPT !.heap[b] = merge_into(st.heap[b], c)]
        ELSE [heap   |-> [st.heap EXCEPT ![i] = merge_into(c, c)],
              by_key |-> Append(st.by_key, [k |-> k, ref |-> i])]

\* One iteration of "for c in cands" on the i-th object of the list.
merge_one(st, i) ==
    LET c == st.heap[i]
        k == key(c)
    IN  IF HasKey(st.by_key, k)
        THEN LET b == Lookup(st.by_key, k)
             IN  [st EXCEPT !.heap[b] = merge_into(st.heap[b], c)]
        ELSE [st EXCEPT !.by_key = Append(st.by_key, [k |-> k, ref |-> i])]

RECURSIVE merge_loop(_, _)
merge_loop(st, i) ==
    IF i > Len(st.heap) THEN st ELSE merge_loop(merge_one(st, i), i + 1)

\* merge_candidates(cs): out is list(by_key.values()); heap is the input
\* list's objects as the call leaves them.
merge_candidates(cs) ==
    LET st == merge_loop([heap |-> cs, by_key |-> <<>>], 1)
    IN  [out  |-> [j \in 1..Len(st.by_key) |-> st.heap[st.by_key[j].ref]],
         heap |-> st.heap]

-----------------------------------------------------------------------------
(* harvest/util.py, harvest/discovery/normalize.py *)

\* A digest of the trimmed string as it is spelled.
stable_id_case_sensitive(primary) == <<"sha256">> \o strip(primary)

\* stable_id(primary): sha256(str(primary).strip().lower()).hexdigest()[:16]
stable_id(primary) == <<"sha256">> \o lower(strip(primary))

UNKNOWN == <<"unknown">>

\* re.findall over the text: the tokens of the text that match, in order.
findall(pat, text) == SelectSeq(text, LAMBDA t : t \in pat)
search(pat, text)  == findall(pat, text) # <<>>

SDK_TS_PAT == {"@modelcontextprotocol/sdk"}
SDK_PY_PAT == {"@mcp.tool"}
TRANS_PAT  == {"stdio", "sse", "/sse", "/mcp", "streamable http"}
AUTH_PAT   == {"api key", "oauth", "bearer"}
DANGER_PAT == {"chmod", "curl", "bash", "exec"}

\* The lookup table of lines 26-34: a transport mention to its literal.
map_transport(t) ==
    CASE t = "stdio"                       -> <<"stdio">>
      [] t \in {"sse", "/sse"}             -> <<"sse">>
      [] t \in {"/mcp", "streamable http"} -> <<"http">>
      [] OTHER                             -> <<>>

RECURSIVE map_transports(_)
map_transports(ts) ==
    IF ts = <<>> THEN <<>> ELSE map_transport(Head(ts)) \o map_transports(Tail(ts))

\* Clock of the run and the length of a day, in ticks of half a day.
TicksPerDay == 2
NowTick     == 7
BadTimestamp == 0 - 1

Max(a, b) == IF a >= b THEN a ELSE b

\* The derivation of lines 41-51 without the floor at 0.
derive_days_no_floor(signals) ==
    IF /\ "pushed_at" \in DOMAIN signals
       /\ signals["pushed_at"] # 0
       /\ ~ ("days_since_push" \in DOMAIN signals /\ signals["days_since_push"] # 0)
    THEN IF signals["pushed_at"] = BadTimestamp
         THEN signals
         ELSE dict_update(signals,
                 [k \in {"days_since_push"} |->
                     (NowTick - signals["pushed_at"]) \div TicksPerDay])
    ELSE signals

\* Lines 41-51: days_since_push from pushed_at when the signal is absent
\* (or 0); a timestamp that does not parse leaves the signals as they are.
derive_days(signals) ==
    IF /\ "pushed_at" \in DOMAIN signals
       /\ signals["pushed_at"] # 0
       /\ ~ ("days_since_push" \in DOMAIN signals /\ signals["days_since_push"] # 0)
    THEN IF signals["pushed_at"] = BadTimestamp
         THEN signals
         ELSE dict_update(signals,
                 [k \in {"days_since_push"} |->
                     Max(0, (NowTick - signals["pushed_at"]) \div TicksPerDay)])
    ELSE signals

\* a or b on dicts.
OrDict(a, b) == IF DOMAIN a # {} THEN a ELSE b

normalize_candidate(raw) ==
    LET name     == Or(Or(Or(raw.title, raw.name), raw.repo_name), <<>>)
        homepage == raw.homepage
        repo     == Or(raw.repo_url, raw.url)
        text     == raw.description \o raw.readme \o raw.snippet
        sdk      == IF search(SDK_TS_PAT, text) THEN "typescript"
                    ELSE IF search(SDK_PY_PAT, text) THEN "python" ELSE "unknown"
        mapped   == map_transports(findall(TRANS_PAT, text))
        sid      == Or(raw.id, stable_id(Or(Or(Or(repo, homepage), name), UNKNOWN)))
        signals  == OrDict(OrDict(raw.signals, raw.extra), <<>>)
    IN  [id           |-> sid,
         name         |-> Or(strip(name), Or(repo, UNKNOWN)),
         description  |-> raw.description,
         repo_url     |-> repo,
         homepage     |-> homepage,
         manifest_url |-> raw.manifest_url,
         sdk          |-> sdk,
         transports   |-> sorted(ToSet(mapped)),
         auth         |-> sorted(ToSet(findall(AUTH_PAT, text))),
         tools        |-> raw.tools,
         registries   |-> raw.registries,
         signals      |-> derive_days(signals),
         risk_flags   |-> IF search(DANGER_PAT, text) THEN <<"danger_terms">> ELSE <<>>,
         provenance   |-> raw.provenance,
         score        |-> 0,
         reasons      |-> <<>>]

\* h.dict() of a SourceHit, read with raw.get: a key the hit does not have
\* reads as the falsy default.
hit_dict(h) ==
    [title |-> h.title, name |-> <<>>, repo_name |-> <<>>, homepage |-> <<>>,
     repo_url |-> <<>>, url |-> h.url, description |-> <<>>, readme |-> <<>>,
     snippet |-> h.snippet, id |-> <<>>, signals |-> <<>>, extra |-> h.extra,
     manifest_url |-> <<>>, tools |-> <<>>, registries |-> <<>>,
     provenance |-> <<>>]

\* run.py line 27-28: every hit is normalized, the list is merged.
normalize_hits(hs) == [i \in 1..Len(hs) |-> normalize_candidate(hit_dict(hs[i]))]

-----------------------------------------------------------------------------
(* The inputs of a discovery run *)

MaxCands == 3      \* candidates handed to merge_candidates
MaxHits  == 3      \* hits the adapters return in one run

\* str(url) of a repository URL: one repository spelled in lower case, in
\* upper case and with a trailing slash.
RepoUrls == { <<"r">>, <<"R">>, <<"r", "/">> }

Sources == {"github", "npm", "pypi"}

\* SourceHit(source, url, title, snippet, extra): github hits carry extra
\* signals, npm hits a description that names transports, auth and an SDK.
HitOf(src, u) ==
    [source  |-> src,
     url     |-> u,
     title   |-> <<"n">>,
     snippet |-> IF src = "npm" THEN <<"sse", "stdio", "oauth", "curl", "@mcp.tool">>
                 ELSE <<>>,
     extra   |-> IF src = "github" THEN [stars |-> 1, pushed_at |-> 2] ELSE <<>>]

\* github hits whose pushed_at lies half a day ahead of the clock of the run,
\* or is no ISO timestamp.
GithubHit(u, pushed_at) ==
    [source |-> "github", url |-> u, title |-> <<"n">>, snippet |-> <<>>,
     extra |-> [stars |-> 1, pushed_at |-> pushed_at]]

HitUniverse ==
    { HitOf(src, u) : src \in Sources, u \in RepoUrls }
        \cup { GithubHit(<<"r">>, p) : p \in {NowTick + 1, BadTimestamp} }

\* Identity fields of a ServerCandidate: repo_url, homepage, name.
Identities ==
    { [repo_url |-> <<"r">>, homepage |-> <<>>,      name |-> <<"n">>],
      [repo_url |-> <<"R">>, homepage |-> <<>>,      name |-> <<"m">>],
      [repo_url |-> <<>>,    homepage |-> <<"r">>,   name |-> <<"n">>],
      [repo_url |-> <<>>,    homepage |-> <<>>,      name |-> <<" ", "N", " ">>] }

H1 == [source |-> "github", url |-> <<"r">>, title |-> <<"n">>, snippet |-> <<>>,
       extra |-> <<>>]
H2 == [source |-> "npm", url |-> <<"R">>, title |-> <<"n">>, snippet |-> <<>>,
       extra |-> <<>>]

\* What else a ServerCandidate carries: nothing, well-formed sorted lists,
\* or lists that are unsorted and hold duplicates.
Profiles ==
    { [description |-> <<>>, sdk |-> "unknown", transports |-> <<>>, auth |-> <<>>,
       tools |-> <<>>, registries |-> <<>>, signals |-> <<>>, risk_flags |-> <<>>,
       provenance |-> <<>>],
      [description |-> <<"d1">>, sdk |-> "python", transports |-> <<"stdio">>,
       auth |-> <<"oauth">>, tools |-> <<"fetch">>, registries |-> <<"npm">>,
       signals |-> [stars |-> 1], risk_flags |-> <<>>, provenance |-> <<H1>>],
      [description |-> <<"d2">>, sdk |-> "typescript",
       transports |-> <<"sse", "http", "sse">>,
       auth |-> <<"bearer", "api key">>, tools |-> <<"search", "fetch">>,
       registries |-> <<"pypi", "github">>, signals |-> [stars |-> 2, archived |-> 1],
       risk_flags |-> <<"danger_terms">>, provenance |-> <<H2, H1>>] }

Candidate(idn, p) ==
    [id           |-> stable_id(Or(Or(idn.repo_url, idn.homepage), idn.name)),
     name         |-> idn.name,
     description  |-> p.description,
     repo_url     |-> idn.repo_url,
     homepage     |-> idn.homepage,
     manifest_url |-> <<>>,
     sdk          |-> p.sdk,
     transports   |-> p.transports,
     auth         |-> p.auth,
     tools        |-> p.tools,
     registries   |-> p.registries,
     signals      |-> p.signals,
     risk_flags   |-> p.risk_flags,
     provenance   |-> p.provenance,
     score        |-> 0,
     reasons      |-> <<>>]

CandUniverse == { Candidate(idn, p) : idn \in Identities, p \in Profiles }

SeqsUpTo(S, n) == UNION { [1..m -> S] : m \in 0..n }

-----------------------------------------------------------------------------
(* The discovery run as a state machine *)

NoCall == [called |-> FALSE]

DiscoverInit ==
    /\ pc = "start"
    /\ hits = <<>>
    /\ orig = <<>>
    /\ cands = <<>>
    /\ merged = <<>>
    /\ merged2 = <<>>
    /\ store = <<>>
    /\ last = NoCall
    /\ FetchIdle
    /\ FanIdle
    /\ FilesIdle
    /\ ScoreIdle
    /\ CrawlIdle

\* discover(), lines 21-27: the adapters' hits are collected and normalized.
Normalize ==
    /\ pc = "start"
    /\ \E hs \in SeqsUpTo(HitUniverse, MaxHits) :
          /\ hits' = hs
          /\ orig' = normalize_hits(hs)
          /\ cands' = normalize_hits(hs)
    /\ pc' = "cands"
    /\ UNCHANGED <<merged, merged2, store, last, fetchVars, fanVars, fileVars,
                   scoreVars, crawlVars>>

\* merge(candidates) called by a client with a list of its own.
Submit ==
    /\ pc = "start"
    /\ \E cs \in SeqsUpTo(CandUniverse, MaxCands) :
          /\ orig' = cs
          /\ cands' = cs
    /\ pc' = "cands"
    /\ UNCHANGED <<hits, merged, merged2, store, last, fetchVars, fanVars, fileVars,
                   scoreVars, crawlVars>>

\* merged = merge_candidates(cands): the result, and the input objects as
\* the call leaves them.
Merge ==
    /\ pc = "cands"
    /\ LET r == merge_candidates(cands)
       IN  /\ merged' = r.out
           /\ cands' = r.heap
    /\ pc' = "merged"
    /\ UNCHANGED <<hits, orig, merged2, store, last, fetchVars, fanVars, fileVars,
                   scoreVars, crawlVars>>

\* merge_candidates applied to its own result.
MergeAgain ==
    /\ pc = "merged"
    /\ merged2' = merge_candidates(merged).out
    /\ pc' = "merged2"
    /\ UNCHANGED <<hits, orig, cands, merged, store, last, fetchVars, fanVars, fileVars,
                   scoreVars, crawlVars>>

DiscoverNext == Normalize \/ Submit \/ Merge \/ MergeAgain

DiscoverSpec == DiscoverInit /\ [][DiscoverNext]_vars

-----------------------------------------------------------------------------
(* mcp_harvest/storage/manifest.py, mcp_harvest/storage/io.py *)

\* A manifest is a Python dict: its keys in insertion order (order) and the
\* value under each key (val).  A value is None or a str.
Null   == [t |-> "null", s |-> ""]
Str(x) == [t |-> "str", s |-> x]

CORE_KEYS_FOR_FINGERPRINT ==
    << "display_name", "description", "runtime", "install", "source_repo",
       "homepage", "license", "maintainer", "auth_required", "env_vars",
       "tools", "transports", "tags" >>

\* dict.get(k): the value under k, None when the key is missing.
get(d, k) == IF k \in DOMAIN d.val THEN d.val[k] ELSE Null

\* The dict with its keys in ascending order (json.dumps(..., sort_keys=True)).
sort_keys(d) == [d EXCEPT !.order = sorted(DOMAIN d.val)]

\* json.dumps of a value and of a dict, as the tokens of the text.
json_value(v) == IF v.t = "null" THEN <<"null">> ELSE <<"\"", v.s, "\"">>

RECURSIVE json_items(_, _)
json_items(d, i) ==
    IF i > Len(d.order) THEN <<>>
    ELSE <<"\"", d.order[i], "\"", ":">> \o json_value(d.val[d.order[i]])
         \o (IF i < Len(d.order) THEN <<",">> ELSE <<>>) \o json_items(d, i + 1)

json_dumps(d) == <<"{">> \o json_items(d, 1) \o <<"}">>

sha256(text) == <<"sha256">> \o text

\* A subset that keeps every item of the manifest.
stable_manifest_subset_whole(manifest) == manifest

\* {k: manifest.get(k) for k in CORE_KEYS_FOR_FINGERPRINT}
stable_manifest_subset(manifest) ==
    [order |-> CORE_KEYS_FOR_FINGERPRINT,
     val   |-> [k \in ToSet(CORE_KEYS_FOR_FINGERPRINT) |-> get(manifest, k)]]

\* A hash of the tracked items in the order the manifest lists them.
compute_sha256_insertion_order(manifest) ==
    sha256(json_dumps(
        [manifest EXCEPT !.order =
            SelectSeq(manifest.order, LAMBDA k : k \in ToSet(CORE_KEYS_FOR_FINGERPRINT))]))

compute_sha256_for_manifest(manifest) ==
    sha256(json_dumps(sort_keys(stable_manifest_subset(manifest))))

\* The keys among `keys`, in that order, whose values differ.
changed_in(keys, old_s, new_s) ==
    SelectSeq(keys, LAMBDA k : get(old_s, k) # get(new_s, k))

\* diff_keys that walks the keys in the order of CORE_KEYS_FOR_FINGERPRINT.
diff_keys_unsorted(old, new) ==
    IF old = <<>>
    THEN stable_manifest_subset(new).order
    ELSE changed_in(CORE_KEYS_FOR_FINGERPRINT,
                    stable_manifest_subset(old[1]), stable_manifest_subset(new))

\* diff_keys(old, new); old is the Optional prior manifest.
diff_keys(old, new) ==
    IF old = <<>>
    THEN stable_manifest_subset(new).order
    ELSE LET old_s == stable_manifest_subset(old[1])
             new_s == stable_manifest_subset(new)
         IN  changed_in(sorted(ToSet(old_s.order) \cup ToSet(new_s.order)), old_s, new_s)

\* read_manifest(server_id): None when the file does not exist, else json.load.
read_manifest(st, server_id) == st[server_id]

\* write_manifest(server_id, manifest): the file becomes
\* json.dumps(manifest, sort_keys=True, ...), which json.load reads back as
\* the dict with its items in key order.
write_manifest(st, server_id, manifest) ==
    [st EXCEPT ![server_id] = <<sort_keys(manifest)>>]

Fingerprint(server_id, registry, sha, manifest) ==
    [server_id |-> server_id, registry |-> registry, sha256 |-> sha,
     manifest |-> manifest]

Delta(server_id, registry, old_sha, new_sha, changed_keys) ==
    [server_id |-> server_id, registry |-> registry, old_sha |-> old_sha,
     new_sha |-> new_sha, changed_keys |-> changed_keys]

\* An update that also reports a first sighting as a Delta.
update_delta_on_first(st, server_id, registry, manifest) ==
    LET previous == read_manifest(st, server_id)
        new_sha  == compute_sha256_for_manifest(manifest)
        fp       == Fingerprint(server_id, registry, new_sha, manifest)
        old_sha  == IF previous = <<>> THEN <<>>
                    ELSE <<compute_sha256_for_manifest(previous[1])>>
    IN  IF old_sha # <<new_sha>>
        THEN [store |-> write_manifest(st, server_id, manifest), fp |-> fp, writes |-> 1,
              delta |-> <<Delta(server_id, registry, old_sha, new_sha,
                                diff_keys(previous, manifest))>>]
        ELSE [store |-> st, fp |-> fp, delta |-> <<>>, writes |-> 0]

\* An update that writes the manifest only when it emits a Delta.
update_no_write_on_first(st, server_id, registry, manifest) ==
    LET previous == read_manifest(st, server_id)
        new_sha  == compute_sha256_for_manifest(manifest)
        fp       == Fingerprint(server_id, registry, new_sha, manifest)
    IN  IF previous # <<>> /\ compute_sha256_for_manifest(previous[1]) # new_sha
        THEN [store |-> write_manifest(st, server_id, manifest), fp |-> fp, writes |-> 1,
              delta |-> <<Delta(server_id, registry,
                                <<compute_sha256_for_manifest(previous[1])>>, new_sha,
                                diff_keys(previous, manifest))>>]
        ELSE [store |-> st, fp |-> fp, delta |-> <<>>, writes |-> 0]

\* An update that rewrites the file on every call.
update_always_write(st, server_id, registry, manifest) ==
    LET previous == read_manifest(st, server_id)
        new_sha  == compute_sha256_for_manifest(manifest)
        fp       == Fingerprint(server_id, registry, new_sha, manifest)
    IN  IF previous # <<>> /\ compute_sha256_for_manifest(previous[1]) # new_sha
        THEN [store |-> write_manifest(st, server_id, manifest), fp |-> fp, writes |-> 1,
              delta |-> <<Delta(server_id, registry,
                                <<compute_sha256_for_manifest(previous[1])>>, new_sha,
                                diff_keys(previous, manifest))>>]
        ELSE [store |-> write_manifest(st, server_id, manifest), fp |-> fp,
              delta |-> <<>>, writes |-> 1]

\* An update that reports a change without persisting the new manifest.
update_no_write_on_change(st, server_id, registry, manifest) ==
    LET previous == read_manifest(st, server_id)
        new_sha  == compute_sha256_for_manifest(manifest)
        fp       == Fingerprint(server_id, registry, new_sha, manifest)
    IN  IF previous = <<>>
        THEN [store |-> write_manifest(st, server_id, manifest), fp |-> fp,
              delta |-> <<>>, writes |-> 1]
        ELSE IF compute_sha256_for_manifest(previous[1]) # new_sha
             THEN [store |-> st, fp |-> fp, writes |-> 0,
                   delta |-> <<Delta(server_id, registry,
                                     <<compute_sha256_for_manifest(previous[1])>>, new_sha,
                                     diff_keys(previous, manifest))>>]
             ELSE [store |-> st, fp |-> fp, delta |-> <<>>, writes |-> 0]

\* update_fingerprint_and_delta(server_id, registry, manifest) on the store
\* st: the store it leaves, the (Fingerprint, Delta | None) it returns and
\* the number of write_manifest calls it made.  Timestamps are left out.
update_fingerprint_and_delta(st, server_id, registry, manifest) ==
    LET previous == read_manifest(st, server_id)
        new_sha  == compute_sha256_for_manifest(manifest)
        fp       == Fingerprint(server_id, registry, new_sha, manifest)
    IN  IF previous = <<>>
        THEN [store |-> write_manifest(st, server_id, manifest), fp |-> fp,
              delta |-> <<>>, writes |-> 1]
        ELSE LET old_sha == compute_sha256_for_manifest(previous[1])
             IN  IF old_sha # new_sha
                 THEN [store |-> write_manifest(st, server_id, manifest), fp |-> fp,
                       writes |-> 1,
                       delta |-> <<Delta(server_id, registry, <<old_sha>>, new_sha,
                                         diff_keys(previous, manifest))>>]
                 ELSE [store |-> st, fp |-> fp, delta |-> <<>>, writes |-> 0]

-----------------------------------------------------------------------------
(* The manifest store as a state machine *)

MaxKeys == 2       \* keys a submitted manifest carries

ServerIds  == {"s1"}
Registries == {"smithery", "docker"}

\* Items of a manifest: two tracked keys (license also as an explicit None)
\* and the untracked, volatile last_seen_iso.
Items ==
    { [k |-> "license", v |-> Null], [k |-> "license", v |-> Str("MIT")],
      [k |-> "license", v |-> Str("GPL")],
      [k |-> "source_repo", v |-> Str("u1")],
      [k |-> "last_seen_iso", v |-> Str("t1")] }

\* dict(items): the manifest built by inserting the items in order.
DictOf(items) ==
    [order |-> [i \in 1..Len(items) |-> items[i].k],
     val   |-> [k \in {items[i].k : i \in 1..Len(items)} |->
                  items[CHOOSE i \in 1..Len(items) : items[i].k = k].v]]

ManifestUniverse ==
    { DictOf(m) : m \in { x \in SeqsUpTo(Items, MaxKeys) :
                            \A i, j \in 1..Len(x) : i # j => x[i].k # x[j].k } }

ManifestInit ==
    /\ pc = "start"
    /\ hits = <<>>
    /\ orig = <<>>
    /\ cands = <<>>
    /\ merged = <<>>
    /\ merged2 = <<>>
    /\ store = [sid \in ServerIds |-> <<>>]
    /\ last = NoCall
    /\ FetchIdle
    /\ FanIdle
    /\ FilesIdle
    /\ ScoreIdle
    /\ CrawlIdle

\* One call of update_fingerprint_and_delta (cli.py crawl, line 81).
Update ==
    \E sid \in ServerIds, reg \in Registries, m \in ManifestUniverse :
        LET r == update_fingerprint_and_delta(store, sid, reg, m)
        IN  /\ store' = r.store
            /\ last' = [called    |-> TRUE,
                        server_id |-> sid,
                        registry  |-> reg,
                        manifest  |-> m,
                        previous  |-> read_manifest(store, sid),
                        fp        |-> r.fp,
                        delta     |-> r.delta,
                        writes    |-> r.writes]
            /\ UNCHANGED <<discoverVars, fetchVars, fanVars, fileVars,
                   scoreVars, crawlVars>>

ManifestNext == Update

ManifestSpec == ManifestInit /\ [][ManifestNext]_vars

-----------------------------------------------------------------------------
(* harvest/discovery/adapters/*.py, mcp_harvest/crawl/base.py: fetch helpers *)

\* What one attempt (client.get + raise_for_status) ends with.
AttemptOutcomes == {"ok", "HTTPStatusError", "ConnectError"}

StopAfterAttempt == 3

\* A stop condition that allows a fourth attempt.
stop_after_four(attempt_number) == attempt_number >= StopAfterAttempt + 1

\* tenacity stop_after_attempt(3): stop once this many attempts were made.
stop_after_attempt(attempt_number) == attempt_number >= StopAfterAttempt

\* The fetch helpers: sem is the size of the module's semaphore the helper
\* enters (<<>>: the request is sent outside any semaphore), retry whether
\* the helper is wrapped in @retry, reraise the decorator's reraise flag.
DockerhubGet   == [name |-> "dockerhub._get", sem |-> <<4>>, retry |-> TRUE,
                   reraise |-> FALSE]
RegistriesGet  == [name |-> "registries.client.get", sem |-> <<>>, retry |-> FALSE,
                   reraise |-> FALSE]
CrawlerFetchText == [name |-> "AbstractCrawler.fetch_text", sem |-> <<>>, retry |-> TRUE,
                   reraise |-> TRUE]

Helpers == {DockerhubGet, RegistriesGet, CrawlerFetchText}

\* The coroutines that call the helper at the same time: one more than the
\* semaphore of dockerhub.py has permits.
Tasks == 1..(DockerhubGet.sem[1] + 1)

\* Requests of the helper that are in flight (inside client.get).
InFlight == Cardinality({ t \in Tasks : task[t].pc = "get" })

FetchInit ==
    /\ helper \in Helpers
    /\ task = [t \in Tasks |-> [pc |-> "enter", attempt |-> 1, exc |-> ""]]
    /\ sem = IF helper.sem = <<>> THEN 0 ELSE helper.sem[1]
    /\ pc = "start"
    /\ hits = <<>>
    /\ orig = <<>>
    /\ cands = <<>>
    /\ merged = <<>>
    /\ merged2 = <<>>
    /\ store = <<>>
    /\ last = NoCall
    /\ FanIdle
    /\ FilesIdle
    /\ ScoreIdle
    /\ CrawlIdle

\* "async with _sem:" is entered (a helper without semaphore goes straight
\* on) and client.get is awaited.
Enter(t) ==
    /\ task[t].pc = "enter"
    /\ IF helper.sem = <<>>
       THEN UNCHANGED sem
       ELSE sem > 0 /\ sem' = sem - 1
    /\ task' = [task EXCEPT ![t].pc = "get"]
    /\ UNCHANGED <<helper, discoverVars, manifestVars, fanVars, fileVars,
                   scoreVars, crawlVars>>

\* The attempt ends: the semaphore is left; a result is returned, or the
\* exception goes to the retry decorator, which stops (RetryError, or the
\* exception itself with reraise) or sleeps before the next attempt.
Respond(t) ==
    /\ task[t].pc = "get"
    /\ sem' = IF helper.sem = <<>> THEN sem ELSE sem + 1
    /\ \E out \in AttemptOutcomes :
          task' = [task EXCEPT ![t] =
                     IF out = "ok" THEN [@ EXCEPT !.pc = "returned"]
                     ELSE IF ~ helper.retry
                          THEN [@ EXCEPT !.pc = "raised", !.exc = out]
                     ELSE IF stop_after_attempt(@.attempt)
                          THEN [@ EXCEPT !.pc = "raised",
                                         !.exc = IF helper.reraise THEN out
                                                 ELSE "RetryError"]
                     ELSE [@ EXCEPT !.pc = "sleep"]]
    /\ UNCHANGED <<helper, discoverVars, manifestVars, fanVars, fileVars,
                   scoreVars, crawlVars>>

\* wait_exponential_jitter is over: the next attempt starts.
Wake(t) ==
    /\ task[t].pc = "sleep"
    /\ task' = [task EXCEPT ![t].pc = "enter", ![t].attempt = @ + 1]
    /\ UNCHANGED <<helper, sem, discoverVars, manifestVars, fanVars, fileVars,
                   scoreVars, crawlVars>>

FetchNext == \E t \in Tasks : Enter(t) \/ Respond(t) \/ Wake(t)

FetchSpec == FetchInit /\ [][FetchNext]_vars

-----------------------------------------------------------------------------
(* harvest/discovery/adapters/*.py: search; harvest/discovery/run.py: fan-out *)

\* How the attempts of one request go, attempt by attempt.
NetBehaviours ==
    { <<"ok", "ok", "ok">>,
      <<"HTTPStatusError", "ConnectError", "ok">>,
      <<"HTTPStatusError", "HTTPStatusError", "HTTPStatusError">>,
      <<"ConnectError", "ConnectError", "ConnectError">> }

\* A call of a helper wrapped in @retry(stop=stop_after_attempt(3), ...):
\* the exception the call ends with ("" when it returns) and the attempts made.
RECURSIVE retry_call(_, _, _)
retry_call(outs, attempt_number, reraise) ==
    IF outs[attempt_number] = "ok"
    THEN [exc |-> "", attempts |-> attempt_number]
    ELSE IF stop_after_attempt(attempt_number)
    THEN [exc |-> IF reraise THEN outs[attempt_number] ELSE "RetryError",
          attempts |-> attempt_number]
    ELSE retry_call(outs, attempt_number + 1, reraise)

\* _get_json, _get, _get_text of the adapters: @retry without reraise.
get_json(outs) == retry_call(outs, 1, FALSE)

Limit == 100

\* items[:limit]
take(items, limit) == SubSeq(items, 1, IF Len(items) < limit THEN Len(items) ELSE limit)

Returns(items) == [exc |-> "", items |-> items]
Raises(exc)    == [exc |-> exc, items |-> <<>>]

\* github.search: two pages, each fetched with _get_json; every page that
\* arrives lists the repository u.
github_search(o1, o2, u, limit) ==
    LET h == HitOf("github", u)
    IN  IF get_json(o1).exc # "" THEN Raises(get_json(o1).exc)
        ELSE IF 1 >= limit THEN Returns(take(<<h>>, limit))
        ELSE IF get_json(o2).exc # "" THEN Raises(get_json(o2).exc)
        ELSE Returns(take(<<h, h>>, limit))

\* npm.search: the query, and the simpler query when the first call raised
\* httpx.HTTPStatusError; any failure of the second call returns no items.
npm_search(o1, o2, u, limit) ==
    LET h == HitOf("npm", u)
    IN  IF get_json(o1).exc = "" THEN Returns(take(<<h>>, limit))
        ELSE IF get_json(o1).exc = "HTTPStatusError"
        THEN IF get_json(o2).exc # "" THEN Returns(<<>>) ELSE Returns(take(<<h>>, limit))
        ELSE Raises(get_json(o1).exc)

\* pypi.search: the result page with _get_text, then the metadata of the one
\* project it names with _get_json; a project whose metadata fails is skipped.
pypi_search(o1, o2, u, limit) ==
    LET h == HitOf("pypi", u)
    IN  IF get_json(o1).exc # "" THEN Raises(get_json(o1).exc)
        ELSE IF get_json(o2).exc # "" THEN Returns(<<>>)
        ELSE Returns(take(<<h>>, limit))

\* dockerhub.search: one call of _get.
dockerhub_search(o1, u, limit) ==
    IF get_json(o1).exc # "" THEN Raises(get_json(o1).exc)
    ELSE Returns(take(<<HitOf("dockerhub", u)>>, limit))

\* What asyncio.gather(..., return_exceptions=True) hands back for a page.
PageResults == {"200", "500", "ConnectError"}

\* registries.search: the pages are fetched with client.get; a page that
\* failed or is not a 200 is skipped, each other page links the repository u.
RECURSIVE registries_hits(_, _)
registries_hits(resps, u) ==
    IF resps = <<>> THEN <<>>
    ELSE (IF Head(resps) = "200" THEN <<HitOf("registries", u)>> ELSE <<>>)
         \o registries_hits(Tail(resps), u)

registries_search(resps, u, limit) == Returns(take(registries_hits(resps, u), limit))

\* The adapters in the order discover awaits them.
AdapterOrder == <<"github", "registries", "npm", "pypi", "dockerhub">>

after(a) ==
    IF a = "dockerhub" THEN "finish"
    ELSE AdapterOrder[1 + CHOOSE i \in 1..Len(AdapterOrder) : AdapterOrder[i] = a]

FanOutInit ==
    /\ stage = "github"
    /\ ran = {}
    /\ failed = {}
    /\ pc = "start"
    /\ hits = <<>>
    /\ orig = <<>>
    /\ cands = <<>>
    /\ merged = <<>>
    /\ merged2 = <<>>
    /\ store = <<>>
    /\ last = NoCall
    /\ FetchIdle
    /\ FilesIdle
    /\ ScoreIdle
    /\ CrawlIdle

\* "hits += await <adapter>(terms, limit=limit)" for the adapter a whose
\* search ended as r: the items are added, or the exception of the search
\* leaves discover.
awaited(a, r) ==
    IF r.exc # ""
    THEN [stage |-> "raised", hits |-> hits, failed |-> failed \cup {a}]
    ELSE [stage |-> after(a), hits |-> hits \o r.items, failed |-> failed]

AwaitGithub ==
    /\ stage = "github"
    /\ \E o1, o2 \in NetBehaviours, u \in RepoUrls :
          LET n == awaited("github", github_search(o1, o2, u, Limit))
          IN  stage' = n.stage /\ hits' = n.hits /\ failed' = n.failed
    /\ ran' = ran \cup {"github"}
    /\ UNCHANGED <<pc, orig, cands, merged, merged2, manifestVars, fetchVars,
                   fileVars,
                   scoreVars, crawlVars>>

AwaitRegistries ==
    /\ stage = "registries"
    /\ \E r1, r2 \in PageResults, u \in RepoUrls :
          LET n == awaited("registries", registries_search(<<r1, r2, "200">>, u, Limit))
          IN  stage' = n.stage /\ hits' = n.hits /\ failed' = n.failed
    /\ ran' = ran \cup {"registries"}
    /\ UNCHANGED <<pc, orig, cands, merged, merged2, manifestVars, fetchVars,
                   fileVars,
                   scoreVars, crawlVars>>

AwaitNpm ==
    /\ stage = "npm"
    /\ \E o1, o2 \in NetBehaviours, u \in RepoUrls :
          LET n == awaited("npm", npm_search(o1, o2, u, Limit))
          IN  stage' = n.stage /\ hits' = n.hits /\ failed' = n.failed
    /\ ran' = ran \cup {"npm"}
    /\ UNCHANGED <<pc, orig, cands, merged, merged2, manifestVars, fetchVars,
                   fileVars,
                   scoreVars, crawlVars>>

AwaitPypi ==
    /\ stage = "pypi"
    /\ \E o1, o2 \in NetBehaviours, u \in RepoUrls :
          LET n == awaited("pypi", pypi_search(o1, o2, u, Limit))
          IN  stage' = n.stage /\ hits' = n.hits /\ failed' = n.failed
    /\ ran' = ran \cup {"pypi"}
    /\ UNCHANGED <<pc, orig, cands, merged, merged2, manifestVars, fetchVars,
                   fileVars,
                   scoreVars, crawlVars>>

AwaitDockerhub ==
    /\ stage = "dockerhub"
    /\ \E o1 \in NetBehaviours, u \in RepoUrls :
          LET n == awaited("dockerhub", dockerhub_search(o1, u, Limit))
          IN  stage' = n.stage /\ hits' = n.hits /\ failed' = n.failed
    /\ ran' = ran \cup {"dockerhub"}
    /\ UNCHANGED <<pc, orig, cands, merged, merged2, manifestVars, fetchVars,
                   fileVars,
                   scoreVars, crawlVars>>

\* Lines 27-44: the hits are normalized and merged and the call returns
\* (scoring and the output file do not change which candidates come back).
Finish ==
    /\ stage = "finish"
    /\ orig' = normalize_hits(hits)
    /\ LET r == merge_candidates(normalize_hits(hits))
       IN  merged' = r.out /\ cands' = r.heap
    /\ stage' = "returned"
    /\ UNCHANGED <<pc, hits, merged2, ran, failed, manifestVars, fetchVars,
                   fileVars,
                   scoreVars, crawlVars>>

FanOutNext ==
    \/ AwaitGithub
    \/ AwaitRegistries
    \/ AwaitNpm
    \/ AwaitPypi
    \/ AwaitDockerhub
    \/ Finish

FanOutSpec == FanOutInit /\ [][FanOutNext]_vars

-----------------------------------------------------------------------------
(* mcp_harvest/storage/io.py, harvest/util.py: the files under data/ *)

\* files maps the path of every file that exists to its text, a sequence of
\* tokens.  A read gives <<>> for a missing file, else <<text>>.
exists(fs, path) == path \in DOMAIN fs

read_text(fs, path) == IF exists(fs, path) THEN <<fs[path]>> ELSE <<>>

\* open(path, "w") ... write(text): the file is created or truncated.
write_text(fs, path, text) ==
    [q \in DOMAIN fs \cup {path} |-> IF q = path THEN text ELSE fs[q]]

\* An open(path, "a") that truncates like open(path, "w").
append_text_truncating(fs, path, text) ==
    [q \in DOMAIN fs \cup {path} |-> IF q = path THEN text ELSE fs[q]]

\* open(path, "a") ... write(text): the text goes after what the file holds.
append_text(fs, path, text) ==
    [q \in DOMAIN fs \cup {path} |->
        IF q = path THEN (IF exists(fs, path) THEN fs[path] ELSE <<>>) \o text
        ELSE fs[q]]

\* os.replace(src, dst): dst becomes the file src was, in one step.
os_replace(fs, src, dst) ==
    [q \in (DOMAIN fs \ {src}) \cup {dst} |-> IF q = dst THEN fs[src] ELSE fs[q]]

\* os.remove(path)
os_remove(fs, path) == [q \in DOMAIN fs \ {path} |-> fs[q]]

\* The part of a text that has reached the file when a write is half done.
flushed_half(text) == SubSeq(text, 1, Len(text) \div 2)

ManifestPath == "manifests/s1.json"

Writers == {"w1", "w2"}

\* A temporary file opened on the target itself.
open_in_place(path, w) == path

\* tempfile.NamedTemporaryFile("w", delete=False, dir=path.parent): a fresh
\* name in the target's directory, never that of another open file.
NamedTemporaryFile(path, w) == IF w = "w1" THEN "manifests/tmp_w1" ELSE "manifests/tmp_w2"

\* json.dumps(manifest, sort_keys=True, ...) as write_manifest passes it on.
manifest_text(manifest) == json_dumps(sort_keys(manifest))

\* The manifests the concurrent calls submit: two that differ in a tracked
\* key and one that differs from the first in last_seen_iso only.
WriterManifests ==
    { DictOf(<<[k |-> "license", v |-> Str("MIT")]>>),
      DictOf(<<[k |-> "license", v |-> Str("GPL")]>>),
      DictOf(<<[k |-> "last_seen_iso", v |-> Str("t1")],
               [k |-> "license", v |-> Str("MIT")]>>) }

\* json.load of a manifest file's text; a text that is no JSON document
\* raises JSONDecodeError.
decodable(text) == \E m \in ManifestUniverse : manifest_text(m) = text

json_load(text) ==
    CHOOSE m \in ManifestUniverse : m = sort_keys(m) /\ manifest_text(m) = text

PersistInit ==
    /\ files = <<>>
    /\ proc \in [Writers -> [pc : {"read"}, manifest : WriterManifests, wrote : {FALSE}]]
    /\ seen = <<>>
    /\ export = <<>>
    /\ lastAppend = <<>>
    /\ pc = "start"
    /\ hits = <<>>
    /\ orig = <<>>
    /\ cands = <<>>
    /\ merged = <<>>
    /\ merged2 = <<>>
    /\ store = <<>>
    /\ last = NoCall
    /\ FetchIdle
    /\ FanIdle
    /\ ScoreIdle
    /\ CrawlIdle

\* update_fingerprint_and_delta, lines 51-62: the prior manifest is read and
\* hashed; the call goes on to write_manifest or returns.
ReadPrevious(w) ==
    /\ proc[w].pc = "read"
    /\ LET text     == read_text(files, ManifestPath)
           previous == IF text = <<>> THEN <<>> ELSE <<json_load(text[1])>>
           r        == update_fingerprint_and_delta([s \in ServerIds |-> previous], "s1",
                                                    "smithery", proc[w].manifest)
       IN  proc' = [proc EXCEPT ![w].pc =
                       IF text # <<>> /\ ~ decodable(text[1]) THEN "raised"
                       ELSE IF r.writes = 1 THEN "create" ELSE "done"]
    /\ UNCHANGED <<files, seen, export, lastAppend, discoverVars, manifestVars,
                   fetchVars, fanVars,
                   scoreVars, crawlVars>>

\* atomic_write_text, line 35: the temporary file is created, empty.
CreateTemp(w) ==
    /\ proc[w].pc = "create"
    /\ files' = write_text(files, NamedTemporaryFile(ManifestPath, w), <<>>)
    /\ proc' = [proc EXCEPT ![w].pc = "write"]
    /\ UNCHANGED <<seen, export, lastAppend, discoverVars, manifestVars,
                   fetchVars, fanVars,
                   scoreVars, crawlVars>>

\* tmp.write(content), line 36: part of the text has reached the file.
WriteTemp(w) ==
    /\ proc[w].pc = "write"
    /\ files' = write_text(files, NamedTemporaryFile(ManifestPath, w),
                           flushed_half(manifest_text(proc[w].manifest)))
    /\ proc' = [proc EXCEPT ![w].pc = "close"]
    /\ UNCHANGED <<seen, export, lastAppend, discoverVars, manifestVars,
                   fetchVars, fanVars,
                   scoreVars, crawlVars>>

\* The with block is left: the file is closed with the whole text in it.
CloseTemp(w) ==
    /\ proc[w].pc = "close"
    /\ files' = write_text(files, NamedTemporaryFile(ManifestPath, w),
                           manifest_text(proc[w].manifest))
    /\ proc' = [proc EXCEPT ![w].pc = "replace"]
    /\ UNCHANGED <<seen, export, lastAppend, discoverVars, manifestVars,
                   fetchVars, fanVars,
                   scoreVars, crawlVars>>

\* os.replace(tmp_path, path), line 38, and the call returns.
Replace(w) ==
    /\ proc[w].pc = "replace"
    /\ files' = os_replace(files, NamedTemporaryFile(ManifestPath, w), ManifestPath)
    /\ proc' = [proc EXCEPT ![w].pc = "done", ![w].wrote = TRUE]
    /\ UNCHANGED <<seen, export, lastAppend, discoverVars, manifestVars,
                   fetchVars, fanVars,
                   scoreVars, crawlVars>>

\* A reader opens the manifest file and reads it.
ReadManifestFile ==
    /\ seen' = <<read_text(files, ManifestPath)>>
    /\ UNCHANGED <<files, proc, export, lastAppend, discoverVars, manifestVars,
                   fetchVars, fanVars,
                   scoreVars, crawlVars>>

PersistNext ==
    \/ \E w \in Writers :
          ReadPrevious(w) \/ CreateTemp(w) \/ WriteTemp(w) \/ CloseTemp(w) \/ Replace(w)
    \/ ReadManifestFile

PersistSpec == PersistInit /\ [][PersistNext]_vars

-----------------------------------------------------------------------------
(* harvest/util.py: writer.write_jsonl *)

JsonlPath == "discover_keyword.jsonl"

\* json.dumps(it, ensure_ascii=False) + "\n" for a scored candidate.
jsonl_line(it) == <<"{", it, "}", "\n">>

RECURSIVE jsonl_text(_)
jsonl_text(items) ==
    IF items = <<>> THEN <<>> ELSE jsonl_line(Head(items)) \o jsonl_text(Tail(items))

MaxItems == 2      \* candidates a run writes out

ScoredItems == {"c1", "c2"}

\* What the data directory holds before the run: nothing, or the complete
\* file of an earlier run with the same keyword.
EarlierFiles == { <<>>, [q \in {JsonlPath} |-> jsonl_text(<<"c0">>)] }

ExportInit ==
    /\ files \in EarlierFiles
    /\ \E items \in SeqsUpTo(ScoredItems, MaxItems) :
          export = [pc |-> "open", items |-> items, i |-> 1,
                    previous |-> read_text(files, JsonlPath)]
    /\ seen = <<>>
    /\ proc = <<>>
    /\ lastAppend = <<>>
    /\ pc = "start"
    /\ hits = <<>>
    /\ orig = <<>>
    /\ cands = <<>>
    /\ merged = <<>>
    /\ merged2 = <<>>
    /\ store = <<>>
    /\ last = NoCall
    /\ FetchIdle
    /\ FanIdle
    /\ ScoreIdle
    /\ CrawlIdle

\* Lines 32-33: open(path, "w") creates the file or truncates it.
OpenJsonl ==
    /\ export.pc = "open"
    /\ files' = write_text(files, JsonlPath, <<>>)
    /\ export' = [export EXCEPT !.pc = "write"]
    /\ UNCHANGED <<proc, seen, lastAppend, discoverVars, manifestVars, fetchVars, fanVars,
                   scoreVars, crawlVars>>

\* Lines 34-35: the line of the next item is written.
WriteLine ==
    /\ export.pc = "write"
    /\ export.i <= Len(export.items)
    /\ files' = append_text(files, JsonlPath, jsonl_line(export.items[export.i]))
    /\ export' = [export EXCEPT !.i = @ + 1]
    /\ UNCHANGED <<proc, seen, lastAppend, discoverVars, manifestVars, fetchVars, fanVars,
                   scoreVars, crawlVars>>

\* The loop is over and the with block closes the file.
CloseJsonl ==
    /\ export.pc = "write"
    /\ export.i > Len(export.items)
    /\ export' = [export EXCEPT !.pc = "done"]
    /\ UNCHANGED <<files, proc, seen, lastAppend, discoverVars, manifestVars, fetchVars,
                   fanVars,
                   scoreVars, crawlVars>>

\* A reader opens data/discover_<keyword>.jsonl and reads it.
ReadJsonl ==
    /\ seen' = <<read_text(files, JsonlPath)>>
    /\ UNCHANGED <<files, proc, export, lastAppend, discoverVars, manifestVars, fetchVars,
                   fanVars,
                   scoreVars, crawlVars>>

ExportNext == OpenJsonl \/ WriteLine \/ CloseJsonl \/ ReadJsonl

ExportSpec == ExportInit /\ [][ExportNext]_vars

-----------------------------------------------------------------------------
(* mcp_harvest/storage/io.py: ensure_data_files, append_deltas *)

ServersPath == "servers.csv"
DeltasPath  == "deltas.csv"
DeltasTmpPath == "deltas.csv.tmp"

\* writer.writerow(CSV_COLUMNS), the columns abridged to the first two.
ServersHeader == <<"registry", ",", "server_id", "\n">>

DeltasHeader ==
    <<"timestamp", ",", "server_id", ",", "registry", ",", "old_sha", ",", "new_sha", ",",
      "changed_keys", "\n">>

\* The rows crawl collects: delta_obj.model_dump() of the Deltas of a cycle.
DeltaRows ==
    { [timestamp |-> "t1", server_id |-> "s1", registry |-> "smithery",
       old_sha |-> <<"h1">>, new_sha |-> <<"h2">>, changed_keys |-> <<"license">>],
      [timestamp |-> "t2", server_id |-> "s1", registry |-> "docker",
       old_sha |-> <<"h2">>, new_sha |-> <<"h3">>,
       changed_keys |-> <<"license", "source_repo">>] }

\* writer.writerow([...]) of a row, changed_keys as json.dumps writes the list.
csv_row(row) ==
    <<row.timestamp, ",", row.server_id, ",", row.registry, ",">> \o row.old_sha
        \o <<",">> \o row.new_sha \o <<",", "[">> \o row.changed_keys \o <<"]", "\n">>

RECURSIVE csv_rows(_)
csv_rows(rows) == IF rows = <<>> THEN <<>> ELSE csv_row(Head(rows)) \o csv_rows(Tail(rows))

ensure_data_files(fs) ==
    LET f1 == IF exists(fs, ServersPath) THEN fs ELSE write_text(fs, ServersPath, ServersHeader)
    IN  IF exists(f1, DeltasPath) THEN f1 ELSE write_text(f1, DeltasPath, DeltasHeader)

\* append_deltas(rows): the rows go to deltas.csv.tmp, the header is written
\* if the log is missing, the temporary file's text is appended to the log
\* and the temporary file is removed.
append_deltas(fs, rows) ==
    LET f1 == ensure_data_files(fs)
        f2 == append_text(f1, DeltasTmpPath, csv_rows(rows))
        f3 == IF exists(f2, DeltasPath) THEN f2 ELSE write_text(f2, DeltasPath, DeltasHeader)
        f4 == append_text(f3, DeltasPath, f3[DeltasTmpPath])
    IN  os_remove(f4, DeltasTmpPath)

MaxAppends == 3    \* append_deltas calls in a behaviour
MaxRows == 2       \* rows handed to one call

DeltaLogInit ==
    /\ files = <<>>
    /\ lastAppend = [calls |-> 0, before |-> <<>>, rows |-> <<>>]
    /\ proc = <<>>
    /\ export = <<>>
    /\ seen = <<>>
    /\ pc = "start"
    /\ hits = <<>>
    /\ orig = <<>>
    /\ cands = <<>>
    /\ merged = <<>>
    /\ merged2 = <<>>
    /\ store = <<>>
    /\ last = NoCall
    /\ FetchIdle
    /\ FanIdle
    /\ ScoreIdle
    /\ CrawlIdle

\* One call of append_deltas (cli.py crawl, line 100).
AppendDeltas ==
    /\ lastAppend.calls < MaxAppends
    /\ \E rows \in SeqsUpTo(DeltaRows, MaxRows) :
          /\ files' = append_deltas(files, rows)
          /\ lastAppend' = [calls  |-> lastAppend.calls + 1,
                            before |-> read_text(files, DeltasPath),
                            rows   |-> rows]
    /\ UNCHANGED <<proc, export, seen, discoverVars, manifestVars, fetchVars, fanVars,
                   scoreVars, crawlVars>>

DeltaLogNext == AppendDeltas

DeltaLogSpec == DeltaLogInit /\ [][DeltaLogNext]_vars

-----------------------------------------------------------------------------
(* harvest/discovery/score.py *)

\* Scores, weights and similarities are counted in hundredths, the unit
\* round(score, 2) keeps.

Min(a, b) == IF a <= b THEN a ELSE b

\* a / b rounded to the nearest whole number, for a >= 0 and b > 0.
RoundDiv(a, b) == (2 * a + b) \div (2 * b)

\* math.log1p(x), in hundredths, at the counts the model uses.
log1p(x) ==
    CASE x = 0    -> 0
      [] x = 1    -> 69
      [] x = 44   -> 381
      [] x = 54   -> 401
      [] x = 60   -> 411
      [] x = 9999 -> 921

\* signals.get(k, default)
signal(signals, k, default) == IF k \in DOMAIN signals THEN signals[k] ELSE default

\* v or default, on numbers.
or_num(v, default) == IF v # 0 THEN v ELSE default

\* Lines 35-36.
stars_of(c) == or_num(signal(c.signals, "stars", 0), 0)
days_of(c)  == or_num(signal(c.signals, "days_since_push", 9999), 9999)

\* 14 * recency, recency = 1.0 / (1.0 + math.log1p(max(0.0, days)))
recency_term(days) == RoundDiv(14 * 100 * 100, 100 + log1p(Max(0, days)))

\* 10 * presence, presence = min(1.0, len(c.registries) / 3.0)
presence_term(c) == Min(1000, RoundDiv(1000 * Len(c.registries), 3))

sdk_bonus(c) == IF c.sdk \in {"typescript", "python"} THEN 100 ELSE 0

\* 4 * hygiene
hygiene_term(c) == IF Len(c.auth) <= 10 THEN 400 ELSE 280

risk_penalty(c) == IF c.risk_flags # <<>> THEN 800 ELSE 0

trans_bonus(c) ==
    (IF "stdio" \in ToSet(c.transports) THEN 150 ELSE 0)
        + (IF "sse" \in ToSet(c.transports) THEN 100 ELSE 0)

\* A license the signals do not carry reads as None.
license_bonus(c) ==
    IF "license" \in DOMAIN c.signals /\ c.signals["license"] # "NOASSERTION"
    THEN 100 ELSE 0

ArchivedPenalty == 1200

archived_penalty(c) ==
    IF signal(c.signals, "archived", 0) # 0 THEN ArchivedPenalty ELSE 0

popularity_term(c) == Min(400, log1p(stars_of(c)))

\* A score that counts the larger of the two penalties only.
heuristic_score_joint_penalty(c, sem_s, lex_s) ==
    40 * sem_s + 22 * lex_s + recency_term(days_of(c)) + presence_term(c)
        + 6 * sdk_bonus(c) + hygiene_term(c) + popularity_term(c)
        + trans_bonus(c) + license_bonus(c)
        - Max(risk_penalty(c), archived_penalty(c))

\* Lines 59-71 and 89: the rounded weighted sum.
heuristic_score(c, sem_s, lex_s) ==
    40 * sem_s + 22 * lex_s + recency_term(days_of(c)) + presence_term(c)
        + 6 * sdk_bonus(c) + hygiene_term(c) + popularity_term(c)
        + trans_bonus(c) + license_bonus(c)
        - risk_penalty(c) - archived_penalty(c)

\* Lines 72-88.
reasons_of(c) ==
    (IF sdk_bonus(c) # 0 THEN << <<"uses official", c.sdk, "SDK">> >> ELSE <<>>)
    \o (IF presence_term(c) > 0
        THEN << <<"present in", ToString(Len(c.registries)), "registry(ies)">> >>
        ELSE <<>>)
    \o (IF stars_of(c) > 0 THEN << <<ToString(stars_of(c)), "GitHub stars">> >> ELSE <<>>)
    \o (IF days_of(c) < 45
        THEN << <<"recent activity", ToString(days_of(c)), "days ago">> >> ELSE <<>>)
    \o (IF trans_bonus(c) > 0 THEN << <<"standard MCP transport(s)">> >> ELSE <<>>)
    \o (IF risk_penalty(c) > 0
        THEN << <<"potentially risky install/docs content detected (penalized)">> >>
        ELSE <<>>)
    \o (IF license_bonus(c) > 0 THEN << <<"has declared license">> >> ELSE <<>>)
    \o (IF archived_penalty(c) > 0
        THEN << <<"archived repository (penalized)">> >> ELSE <<>>)

\* " ".join([c.name, c.description])
text_of(c) == c.name \o <<" ">> \o c.description

\* Lines 31-91 for one candidate: o gives what the embedding model and the
\* TF-IDF vectorizer return for the candidate's text.
scored_item(c, o) ==
    [c EXCEPT !.score   = heuristic_score(c, o[text_of(c)].sem, o[text_of(c)].lex),
              !.reasons = reasons_of(c)]

\* The list out before it is sorted.
scored_items(cs, o) == [i \in 1..Len(cs) |-> scored_item(cs[i], o)]

\* An insertion that puts x in front of the items of equal score.
insert_before_equal(done, x) ==
    LET k == Cardinality({i \in 1..Len(done) : done[i].score > x.score})
    IN  SubSeq(done, 1, k) \o <<x>> \o SubSeq(done, k + 1, Len(done))

\* x goes behind every item of done whose score is at least x's.
insert_by_score(done, x) ==
    LET k == Cardinality({i \in 1..Len(done) : done[i].score >= x.score})
    IN  SubSeq(done, 1, k) \o <<x>> \o SubSeq(done, k + 1, Len(done))

\* out.sort(key=lambda x: x["score"], reverse=True): list.sort is stable,
\* also with reverse=True.
RECURSIVE sort_by_score(_, _)
sort_by_score(done, rest) ==
    IF rest = <<>> THEN done
    ELSE sort_by_score(insert_by_score(done, Head(rest)), Tail(rest))

score_candidates(cs, o) == sort_by_score(<<>>, scored_items(cs, o))

-----------------------------------------------------------------------------
(* score_candidates as a state machine *)

MaxScored == 3     \* candidates handed to score_candidates

\* A dict with the one item k: v, empty when v is None.
entry(k, v) == IF v = <<>> THEN <<>> ELSE [x \in {k} |-> v[1]]

\* The signals a candidate carries: a star count (absent, in the log-damped
\* range, at and beyond the cap of the bonus), days since the last push
\* (absent, today, yesterday, 44 days ago) and the archived flag.
StarsValues    == { <<>>, <<1>>, <<54>>, <<60>> }
DaysValues     == { <<>>, <<0>>, <<1>>, <<44>> }
ArchivedValues == { <<>>, <<1>> }

SignalsOf(st, d, a, lic) ==
    dict_update(dict_update(dict_update(entry("stars", st), entry("days_since_push", d)),
                            entry("archived", a)),
                entry("license", lic))

\* What else the scorer reads: a bare candidate, and one with an SDK, both
\* standard transports, two registries, a license and a risk flag.
ScoreBodies ==
    { [description |-> <<>>, sdk |-> "unknown", transports |-> <<>>, auth |-> <<>>,
       tools |-> <<>>, registries |-> <<>>, risk_flags |-> <<>>, license |-> <<>>],
      [description |-> <<"d1">>, sdk |-> "python", transports |-> <<"sse", "stdio">>,
       auth |-> <<"oauth">>, tools |-> <<"fetch">>, registries |-> <<"github", "npm">>,
       risk_flags |-> <<"danger_terms">>, license |-> <<"MIT">>] }

ScoreCandidate(b, st, d, a) ==
    Candidate([repo_url |-> <<"r">>, homepage |-> <<>>, name |-> <<"n">>],
              [description |-> b.description, sdk |-> b.sdk, transports |-> b.transports,
               auth |-> b.auth, tools |-> b.tools, registries |-> b.registries,
               signals |-> SignalsOf(st, d, a, b.license), risk_flags |-> b.risk_flags,
               provenance |-> <<>>])

Bare == CHOOSE b \in ScoreBodies : b.registries = <<>>

\* The candidates handed to the scorer vary one signal at a time.
ScoreUniverse ==
    { ScoreCandidate(Bare, st, <<>>, <<>>) : st \in StarsValues }
        \cup { ScoreCandidate(Bare, <<>>, d, <<>>) : d \in DaysValues }
        \cup { ScoreCandidate(b, <<>>, <<>>, a) : b \in ScoreBodies, a \in ArchivedValues }

\* What the embedding model and the vectorizer return for a text: the same
\* for every text, or more for the bare candidate's text.
Oracles ==
    { [t \in {text_of(c) : c \in ScoreUniverse} |-> [sem |-> 50, lex |-> 10]],
      [t \in {text_of(c) : c \in ScoreUniverse} |->
          IF t = <<"n", " ">> THEN [sem |-> 80, lex |-> 30] ELSE [sem |-> 20, lex |-> 0]] }

\* The state of a ranking: the candidates, the list out before and after
\* the sort, and for discover() the exception of the re-ranking step, the
\* probabilities the model gave and the list returned.
RankingStart(cs, o) ==
    [pc |-> "start", cands |-> cs, oracle |-> o, out |-> <<>>, heuristic |-> <<>>,
     scored |-> <<>>, exc |-> "", reranked |-> <<>>, returned |-> <<>>]

ScoreInit ==
    /\ ranking \in { RankingStart(cs, o) :
                        cs \in SeqsUpTo(ScoreUniverse, MaxScored), o \in Oracles }
    /\ audit = <<>>
    /\ pc = "start"
    /\ hits = <<>>
    /\ orig = <<>>
    /\ cands = <<>>
    /\ merged = <<>>
    /\ merged2 = <<>>
    /\ store = <<>>
    /\ last = NoCall
    /\ FetchIdle
    /\ FanIdle
    /\ FilesIdle
    /\ CrawlIdle

\* scored = score_candidates(merged, keyword, terms)
ScoreCandidates ==
    /\ ranking.pc = "start"
    /\ ranking' = [ranking EXCEPT
                      !.pc        = "scored",
                      !.out       = scored_items(ranking.cands, ranking.oracle),
                      !.heuristic = score_candidates(ranking.cands, ranking.oracle),
                      !.scored    = score_candidates(ranking.cands, ranking.oracle)]
    /\ UNCHANGED <<audit, discoverVars, manifestVars, fetchVars, fanVars, fileVars,
                   crawlVars>>

ScoreNext == ScoreCandidates

ScoreSpec == ScoreInit /\ [][ScoreNext]_vars

-----------------------------------------------------------------------------
(* harvest/discovery/run.py, lines 29-44, and harvest/discovery/model.py:   *)
(* the re-ranking step of discover()                                        *)

\* What score_candidates_with_model can raise: joblib.load on a missing
\* model file, a bundle or a frame without the expected keys, and a
\* vectorizer or classifier that does not fit the features.
ModelErrors == {"FileNotFoundError", "KeyError", "ValueError"}

\* A handler for the missing model file only.
handled_file_not_found_only(exc) == exc = "FileNotFoundError"

\* except Exception: (run.py line 41)
handled(exc) == exc \in ModelErrors

\* predict_proba(X)[:, 1] of an item, as the score round(float(p) * 100.0, 2)
\* makes of it.
Probabilities == {2500, 9000}

\* model.py lines 115-116: the items zipped with their probabilities and
\* sorted by probability, highest first.
rank_by_probability(items, probs) ==
    sort_by_score(<<>>, [i \in 1..Len(items) |-> [it |-> items[i], score |-> probs[i]]])

\* run.py lines 36-40: the model's score replaces the heuristic one and a
\* reason is appended.
apply_model_scores(reranked) ==
    [i \in 1..Len(reranked) |->
        [reranked[i].it EXCEPT
            !.score   = reranked[i].score,
            !.reasons = Append(@, <<"ML ranker (weak labels) boosted">>)]]

\* The candidates of the runs that go through the re-ranking step.
RerankUniverse ==
    { ScoreCandidate(Bare, <<>>, <<>>, <<>>), ScoreCandidate(Bare, <<60>>, <<>>, <<>>) }
        \cup { ScoreCandidate(b, <<>>, <<>>, <<1>>) : b \in ScoreBodies \ {Bare} }

RerankInit ==
    /\ ranking \in { RankingStart(cs, o) :
                        cs \in SeqsUpTo(RerankUniverse, MaxScored),
                        o \in { x \in Oracles : \A t \in DOMAIN x : x[t].sem = 50 } }
    /\ audit = <<>>
    /\ pc = "start"
    /\ hits = <<>>
    /\ orig = <<>>
    /\ cands = <<>>
    /\ merged = <<>>
    /\ merged2 = <<>>
    /\ store = <<>>
    /\ last = NoCall
    /\ FetchIdle
    /\ FanIdle
    /\ FilesIdle
    /\ CrawlIdle

\* model.py line 93: joblib.load(model_path) returns the bundle or raises.
LoadModel ==
    /\ ranking.pc = "scored"
    /\ \/ ranking' = [ranking EXCEPT !.pc = "loaded"]
       \/ ranking' = [ranking EXCEPT !.pc = "except", !.exc = "FileNotFoundError"]
    /\ UNCHANGED <<audit, discoverVars, manifestVars, fetchVars, fanVars, fileVars,
                   crawlVars>>

\* model.py lines 94-113: no items gives [], else the features are built,
\* or a step on the way raises.
BuildFeatures ==
    /\ ranking.pc = "loaded"
    /\ \/ ranking' = [ranking EXCEPT !.pc = "except", !.exc = "KeyError"]
       \/ /\ ranking.scored = <<>>
          /\ ranking' = [ranking EXCEPT !.pc = "write"]
       \/ /\ ranking.scored # <<>>
          /\ ranking' = [ranking EXCEPT !.pc = "features"]
    /\ UNCHANGED <<audit, discoverVars, manifestVars, fetchVars, fanVars, fileVars,
                   crawlVars>>

\* model.py lines 114-117: predict_proba gives a probability per item, or
\* raises.
Predict ==
    /\ ranking.pc = "features"
    /\ \/ ranking' = [ranking EXCEPT !.pc = "except", !.exc = "ValueError"]
       \/ \E probs \in [1..Len(ranking.scored) -> Probabilities] :
             ranking' = [ranking EXCEPT
                            !.pc       = "reranked",
                            !.reranked = rank_by_probability(ranking.scored, probs)]
    /\ UNCHANGED <<audit, discoverVars, manifestVars, fetchVars, fanVars, fileVars,
                   crawlVars>>

\* run.py lines 33-40.
ApplyModelScores ==
    /\ ranking.pc = "reranked"
    /\ ranking' = [ranking EXCEPT !.pc = "write",
                                  !.scored = apply_model_scores(ranking.reranked)]
    /\ UNCHANGED <<audit, discoverVars, manifestVars, fetchVars, fanVars, fileVars,
                   crawlVars>>

\* run.py lines 41-42: the handler passes; an exception it does not match
\* leaves discover.
ExceptPass ==
    /\ ranking.pc = "except"
    /\ ranking' = [ranking EXCEPT !.pc = IF handled(ranking.exc) THEN "write" ELSE "raised"]
    /\ UNCHANGED <<audit, discoverVars, manifestVars, fetchVars, fanVars, fileVars,
                   crawlVars>>

\* run.py lines 43-44: scored is written out and returned.
ReturnScored ==
    /\ ranking.pc = "write"
    /\ ranking' = [ranking EXCEPT !.pc = "returned", !.returned = ranking.scored]
    /\ UNCHANGED <<audit, discoverVars, manifestVars, fetchVars, fanVars, fileVars,
                   crawlVars>>

RerankNext ==
    \/ ScoreCandidates
    \/ LoadModel
    \/ BuildFeatures
    \/ Predict
    \/ ApplyModelScores
    \/ ExceptPass
    \/ ReturnScored

RerankSpec == RerankInit /\ [][RerankNext]_vars

-----------------------------------------------------------------------------
(* mcp_multiagent_selector/security/scoring.py *)

\* needle in text, on strings as sequences of characters.
contains(needle, text) ==
    \E i \in 1..(Len(text) - Len(needle) + 1) :
        SubSeq(text, i, i + Len(needle) - 1) = needle

\* x or "" for an Optional str.
or_empty(x) == IF x = <<>> THEN <<>> ELSE x[1]

negated_cve_phrases ==
    { << "n", "o", " ", "c", "v", "e" >>,
      << "n", "o", " ", "k", "n", "o", "w", "n", " ", "c", "v", "e" >>,
      << "n", "o", " ", "k", "n", "o", "w", "n", " ", "c", "v", "e", "s" >>,
      << "n", "o", " ", "v", "u", "l", "n", "e", "r", "a", "b", "i", "l", "i",
         "t", "i", "e", "s" >>,
      << "n", "o", " ", "k", "n", "o", "w", "n", " ", "v", "u", "l", "n", "e",
         "r", "a", "b", "i", "l", "i", "t", "i", "e", "s" >>,
      << "w", "i", "t", "h", "o", "u", "t", " ", "v", "u", "l", "n", "e", "r",
         "a", "b", "i", "l", "i", "t", "i", "e", "s" >>,
      << "n", "o", " ", "v", "u", "l", "n", "e", "r", "a", "b", "i", "l", "i",
         "t", "y" >>,
      << "n", "o", " ", "s", "e", "c", "u", "r", "i", "t", "y", " ", "i", "s",
         "s", "u", "e", "s" >>,
      << "n", "o", " ", "k", "n", "o", "w", "n", " ", "s", "e", "c", "u", "r",
         "i", "t", "y", " ", "i", "s", "s", "u", "e", "s" >>,
      << "z", "e", "r", "o", " ", "c", "v", "e", "s" >> }

red_flag_keywords ==
    { << "h", "i", "g", "h", " ", "r", "i", "s", "k" >>,
      << "c", "r", "i", "t", "i", "c", "a", "l", " ", "r", "i", "s", "k" >>,
      << "k", "n", "o", "w", "n", " ", "r", "i", "s", "k" >>,
      << "s", "e", "c", "u", "r", "i", "t", "y", " ", "r", "i", "s", "k" >>,
      << "s", "e", "v", "e", "r", "e", " ", "r", "i", "s", "k" >> }

\* add_score(category, points, condition) on the running score and breakdown.
add_score(st, category, points, condition) ==
    [score     |-> IF condition THEN st.score + points ELSE st.score,
     breakdown |-> dict_update(st.breakdown,
                       [k \in {category} |-> IF condition THEN points ELSE 0])]

\* Lines 53-79.
cve_penalty(rn) ==
    IF \E phrase \in negated_cve_phrases : contains(phrase, rn)
    THEN 0
    ELSE IF contains(<< "c", "v", "e" >>, rn) \/ contains(<< "v", "u", "l", "n", "e", "r", "a", "b" >>, rn)
         THEN 30
         ELSE IF \E kw \in red_flag_keywords : contains(kw, rn) THEN 15 ELSE 0

\* Lines 81-83.
subtract_penalty(st, penalty) ==
    IF penalty > 0
    THEN [score     |-> st.score - penalty,
          breakdown |-> dict_update(st.breakdown,
                            [k \in {"known_cves_or_redflags"} |-> 0 - penalty])]
    ELSE st

\* max(0, min(100, score))
clamp(score) == Max(0, Min(100, score))

score_server(evidence) ==
    LET auth_model == lower(or_empty(evidence.auth_model))
        activity   == Min(10, IF evidence.maintainer_activity = <<>> THEN 0
                              ELSE or_num(evidence.maintainer_activity[1], 0))
        risk_notes == lower(or_empty(evidence.risk_notes))
        summary    == lower(or_empty(evidence.summary))
        s0 == [score |-> 0, breakdown |-> <<>>]
        s1 == add_score(s0, "signature_or_attestation", 25, evidence.hash_pinning)
        s2 == IF auth_model \in {<< "m", "t", "l", "s" >>, << "o", "a", "u", "t", "h" >>}
              THEN add_score(s1, "https_or_mtls", 15, TRUE)
              ELSE IF auth_model \in {<< "a", "p", "i", "_", "k", "e", "y" >>, << "h", "t", "t", "p", "s", "_", "o", "n", "l", "y" >>, << "h", "t", "t", "p", "s", "-", "o", "n", "l", "y" >>}
                   THEN add_score(s1, "https_or_mtls", 5, TRUE)
                   ELSE add_score(s1, "https_or_mtls", 0, TRUE)
        s3 == add_score(s2, "hash_pinning", 15, evidence.hash_pinning)
        s4 == add_score(s3, "update_cadence", activity, TRUE)
        s5 == add_score(s4, "least_privilege_docs", 10, contains(<< "s", "c", "o", "p", "e" >>, risk_notes))
        s6 == add_score(s5, "sbom_or_aibom", 10, evidence.sbom)
        s7 == subtract_penalty(s6, cve_penalty(risk_notes))
        s8 == add_score(s7, "rate_limiting", 5, contains(<< "r", "a", "t", "e", " ", "l", "i", "m", "i", "t" >>, summary))
        s9 == add_score(s8, "observability_docs", 5,
                        contains(<< "t", "r", "a", "c", "e" >>, summary) \/ contains(<< "l", "o", "g" >>, summary))
    IN  [score |-> clamp(s9.score), breakdown |-> s9.breakdown]

-----------------------------------------------------------------------------
(* score_server as a state machine *)

\* The evidence: every combination of the two flags, an auth model, a
\* maintainer activity and the texts of risk_notes and summary.
AuthModels == { <<>>, <<<< "m", "T", "L", "S" >>>>, <<<< "a", "p", "i", "_", "k", "e", "y" >>>>, <<<< "h", "t", "t", "p", "s", "_", "o", "n", "l", "y" >>>>, <<<< "n", "o", "n", "e" >>>> }

Activities == { <<>>, <<0 - 5>>, <<0>>, <<10>>, <<15>> }

RiskNotes ==
    { <<>> } \cup { <<t>> : t \in
    { << "C", "l", "e", "a", "r", " ", "s", "c", "o", "p", "e", " ", "a", "n",
         "d", " ", "l", "e", "a", "s", "t", " ", "p", "r", "i", "v", "i", "l",
         "e", "g", "e", " ", "d", "o", "c", "u", "m", "e", "n", "t", "e", "d" >>,
      << "K", "n", "o", "w", "n", " ", "C", "V", "E", "-", "2", "0", "2", "4",
         "-", "1", "2", "3", "4", " ", "v", "u", "l", "n", "e", "r", "a", "b",
         "i", "l", "i", "t", "y" >>,
      << "s", "c", "o", "p", "e", ";", " ", "n", "o", " ", "k", "n", "o", "w",
         "n", " ", "C", "V", "E", "s" >>,
      << "s", "c", "o", "p", "e", ";", " ", "h", "i", "g", "h", " ", "r", "i",
         "s", "k" >> } }

Summaries ==
    { <<>> } \cup { <<t>> : t \in
    { << "B", "a", "s", "i", "c", " ", "f", "u", "n", "c", "t", "i", "o", "n",
         "a", "l", "i", "t", "y" >>,
      << "C", "o", "m", "p", "r", "e", "h", "e", "n", "s", "i", "v", "e", " ",
         "r", "a", "t", "e", " ", "l", "i", "m", "i", "t", "i", "n", "g", " ",
         "a", "n", "d", " ", "o", "b", "s", "e", "r", "v", "a", "b", "i", "l",
         "i", "t", "y", " ", "f", "e", "a", "t", "u", "r", "e", "s" >>,
      << "r", "a", "t", "e", " ", "l", "i", "m", "i", "t", "i", "n", "g", ",",
         " ", "l", "o", "g", "s" >> } }

EvidenceUniverse ==
    [hash_pinning : BOOLEAN, auth_model : AuthModels, maintainer_activity : Activities,
     risk_notes : RiskNotes, sbom : BOOLEAN, summary : Summaries]

AuditInit ==
    /\ audit \in { [pc |-> "start", evidence |-> e, score |-> 0, breakdown |-> <<>>] :
                      e \in EvidenceUniverse }
    /\ ranking = <<>>
    /\ pc = "start"
    /\ hits = <<>>
    /\ orig = <<>>
    /\ cands = <<>>
    /\ merged = <<>>
    /\ merged2 = <<>>
    /\ store = <<>>
    /\ last = NoCall
    /\ FetchIdle
    /\ FanIdle
    /\ FilesIdle
    /\ CrawlIdle

\* score, breakdown = score_server(evidence)
ScoreServer ==
    /\ audit.pc = "start"
    /\ LET r == score_server(audit.evidence)
       IN  audit' = [audit EXCEPT !.pc = "scored", !.score = r.score,
                                  !.breakdown = r.breakdown]
    /\ UNCHANGED <<ranking, discoverVars, manifestVars, fetchVars, fanVars, fileVars,
                   crawlVars>>

AuditNext == ScoreServer

AuditSpec == AuditInit /\ [][AuditNext]_vars

-----------------------------------------------------------------------------
(* mcp_harvest/cli.py: crawl *)

MaxRuns == 3       \* crawl runs in a behaviour

ServersTmpPath == "servers.csv.tmp"

\* A Server as a crawler yields it: its server_id, its registry and
\* server.model_dump(), the manifest crawl passes on.
ServerOf(server_id, registry, manifest) ==
    [server_id |-> server_id, registry |-> registry, manifest |-> manifest]

Licensed(x) == DictOf(<<[k |-> "license", v |-> Str(x)]>>)

\* What the registries hold, as _run_crawlers returns it: one server, the
\* same server under another license, the same server with a later
\* last_seen_iso, and one server_id that two registries report with
\* different licenses.
Listings ==
    { <<ServerOf("s1", "smithery", Licensed("MIT"))>>,
      <<ServerOf("s1", "smithery", Licensed("GPL"))>>,
      <<ServerOf("s1", "smithery",
                 DictOf(<<[k |-> "last_seen_iso", v |-> Str("t1")],
                          [k |-> "license", v |-> Str("MIT")]>>))>>,
      <<ServerOf("s1", "smithery", Licensed("MIT")),
        ServerOf("s1", "opentools", Licensed("GPL"))>> }

\* delta_obj.model_dump(): the timestamp is the time of the run.
delta_dump(d, run) ==
    [timestamp |-> ToString(run), server_id |-> d.server_id, registry |-> d.registry,
     old_sha |-> IF d.old_sha = <<>> THEN <<>> ELSE d.old_sha[1], new_sha |-> d.new_sha,
     changed_keys |-> d.changed_keys]

RECURSIVE server_rows(_)
server_rows(servers) ==
    IF servers = <<>> THEN <<>>
    ELSE <<Head(servers).registry, ",", Head(servers).server_id, "\n">>
             \o server_rows(Tail(servers))

\* write_servers_csv(rows): the table goes to servers.csv.tmp, which then
\* replaces servers.csv.
write_servers_csv(fs, servers) ==
    LET f1 == ensure_data_files(fs)
        f2 == write_text(f1, ServersTmpPath, ServersHeader \o server_rows(servers))
    IN  os_replace(f2, ServersTmpPath, ServersPath)

CrawlInit ==
    /\ crawl \in { [pc |-> "idle", listing |-> l, queue |-> <<>>, deltas |-> <<>>,
                   history |-> <<>>] : l \in Listings }
    /\ journal = <<>>
    /\ store = [sid \in ServerIds |-> <<>>]
    /\ files = <<>>
    /\ last = NoCall
    /\ proc = <<>>
    /\ export = <<>>
    /\ seen = <<>>
    /\ lastAppend = <<>>
    /\ pc = "start"
    /\ hits = <<>>
    /\ orig = <<>>
    /\ cands = <<>>
    /\ merged = <<>>
    /\ merged2 = <<>>
    /\ FetchIdle
    /\ FanIdle
    /\ ScoreIdle

Resting == crawl.pc \in {"idle", "done", "failed"}

\* Between two runs the registries come to hold something else.
Publish ==
    /\ Resting
    /\ \E l \in Listings \ {crawl.listing} : crawl' = [crawl EXCEPT !.listing = l]
    /\ UNCHANGED <<journal, store, files, last, proc, export, seen, lastAppend,
                   discoverVars, fetchVars, fanVars, scoreVars>>

\* crawl(), lines 56-78: the data files are ensured, the crawlers are run
\* and the loop over all_servers starts with no rows and no deltas.
StartCrawl ==
    /\ Resting
    /\ Len(crawl.history) < MaxRuns
    /\ files' = ensure_data_files(files)
    /\ crawl' = [crawl EXCEPT
                    !.pc      = "loop",
                    !.queue   = crawl.listing,
                    !.deltas  = <<>>,
                    !.history = Append(@, [listing |-> crawl.listing,
                                           outcome |-> "running"])]
    /\ UNCHANGED <<journal, store, last, proc, export, seen, lastAppend,
                   discoverVars, fetchVars, fanVars, scoreVars>>

\* Lines 79-95 for the next server: its manifest is fingerprinted against
\* the persisted one and a Delta, if any, is kept in the list deltas.
UpdateServer ==
    /\ crawl.pc = "loop"
    /\ crawl.queue # <<>>
    /\ LET server == Head(crawl.queue)
           r == update_fingerprint_and_delta(store, server.server_id, server.registry,
                                             server.manifest)
       IN  /\ store' = r.store
           /\ crawl' = [crawl EXCEPT !.queue = Tail(@), !.deltas = @ \o r.delta]
           /\ journal' = Append(journal,
                                [run       |-> Len(crawl.history),
                                 server_id |-> server.server_id,
                                 sha       |-> compute_sha256_for_manifest(server.manifest),
                                 delta     |-> r.delta])
    /\ UNCHANGED <<files, last, proc, export, seen, lastAppend,
                   discoverVars, fetchVars, fanVars, scoreVars>>

\* Lines 97-98: if rows: write_servers_csv(rows)
WriteServersCsv ==
    /\ crawl.pc = "loop"
    /\ crawl.queue = <<>>
    /\ LET servers == crawl.history[Len(crawl.history)].listing
       IN  files' = IF servers # <<>> THEN write_servers_csv(files, servers) ELSE files
    /\ crawl' = [crawl EXCEPT !.pc = "append"]
    /\ UNCHANGED <<journal, store, last, proc, export, seen, lastAppend,
                   discoverVars, fetchVars, fanVars, scoreVars>>

\* Lines 99-101: if deltas: append_deltas(deltas), and the run is over.
AppendCrawlDeltas ==
    /\ crawl.pc = "append"
    /\ LET run  == Len(crawl.history)
           rows == [i \in 1..Len(crawl.deltas) |-> delta_dump(crawl.deltas[i], run)]
       IN  /\ files' = IF rows # <<>> THEN append_deltas(files, rows) ELSE files
           /\ crawl' = [crawl EXCEPT !.pc = "done", !.history[run].outcome = "done"]
    /\ UNCHANGED <<journal, store, last, proc, export, seen, lastAppend,
                   discoverVars, fetchVars, fanVars, scoreVars>>

\* An exception in the loop or in write_servers_csv (a persistence I/O
\* failure is fatal for the cycle), or the process is killed: the run ends
\* and the list deltas it held in memory is gone.
FailCrawl ==
    /\ crawl.pc \in {"loop", "append"}
    /\ crawl' = [crawl EXCEPT !.pc = "failed", !.queue = <<>>, !.deltas = <<>>,
                              !.history[Len(crawl.history)].outcome = "failed"]
    /\ UNCHANGED <<journal, store, files, last, proc, export, seen, lastAppend,
                   discoverVars, fetchVars, fanVars, scoreVars>>

CrawlNext ==
    \/ Publish
    \/ StartCrawl
    \/ UpdateServer
    \/ WriteServersCsv
    \/ AppendCrawlDeltas
    \/ FailCrawl

CrawlSpec == CrawlInit /\ [][CrawlNext]_vars

-----------------------------------------------------------------------------
(* Claims about the discovery run (DiscoverSpec) *)

\* The identity key as the specification words it: the lower-cased, trimmed
\* repo_url, else homepage, else name.
IdentityString(c) ==
    IF c.repo_url # <<>> THEN c.repo_url
    ELSE IF c.homepage # <<>> THEN c.homepage ELSE c.name

IdentityKey(c) == lower(strip(IdentityString(c)))

KeysOf(cs) == { IdentityKey(cs[i]) : i \in 1..Len(cs) }

SetFields == {"transports", "auth", "tools", "registries", "risk_flags"}

\* Order-insensitive, field-by-field equality of two candidate lists.
SameUpToOrder(A, B) ==
    /\ Len(A) = Len(B)
    /\ KeysOf(A) = KeysOf(B)
    /\ \A i \in 1..Len(A) : \A j \in 1..Len(B) :
          IdentityKey(A[i]) = IdentityKey(B[j]) =>
             /\ A[i].description = B[j].description
             /\ A[i].sdk = B[j].sdk
             /\ \A f \in SetFields : ToSet(A[i][f]) = ToSet(B[j][f])
             /\ A[i].signals = B[j].signals
             /\ A[i].provenance = B[j].provenance

\* C1: merge_candidates is idempotent: merge_candidates(merge_candidates(X))
\* equals merge_candidates(X) field by field, up to order.
C1_MergeIdempotent == pc = "merged2" => SameUpToOrder(merged2, merged)

C1_Witness ==
    /\ pc = "merged2"
    /\ Len(orig) = 3
    /\ Len(merged) = 2
    /\ \E j \in 1..2 : Len(merged[j].provenance) >= 2

\* Two URLs of one repository: equal up to letter case and a trailing slash.
StripSlash(u) == IF u # <<>> /\ u[Len(u)] = "/" THEN SubSeq(u, 1, Len(u) - 1) ELSE u
SameRepository(u, v) == lower(StripSlash(u)) = lower(StripSlash(v))

ThreeSightings(hs) ==
    /\ Len(hs) = 3
    /\ \A i, j \in 1..3 : i # j => hs[i].source # hs[j].source
    /\ \A i, j \in 1..3 : SameRepository(hs[i].url, hs[j].url)

\* C2: three hits from three different sources that reference the same
\* repository (URLs differing only in case or a trailing slash) normalize and
\* merge into exactly one candidate whose provenance has length 3.
C2_ThreeHitsOneCandidate ==
    (pc = "merged" /\ ThreeSightings(hits)) =>
        /\ Len(merged) = 1
        /\ Len(merged[1].provenance) = 3

\* C9: the output of merge_candidates holds exactly one candidate per
\* identity key of the input: no key twice, every input key represented.
C9_OnePerKey ==
    pc \in {"merged", "merged2"} =>
        /\ \A i, j \in 1..Len(merged) :
              i # j => IdentityKey(merged[i]) # IdentityKey(merged[j])
        /\ KeysOf(merged) = KeysOf(orig)

C9_Witness ==
    /\ pc = "merged"
    /\ Len(orig) = 3
    /\ Cardinality(KeysOf(orig)) = 2
    /\ \E i, j \in 1..3 : /\ i # j
                          /\ IdentityString(orig[i]) # IdentityString(orig[j])
                          /\ IdentityKey(orig[i]) = IdentityKey(orig[j])

\* The set union of field f over the input candidates with key k.
UnionOver(cs, k, f) ==
    UNION { ToSet(cs[i][f]) : i \in { n \in 1..Len(cs) : IdentityKey(cs[n]) = k } }

\* C10: for each identity key, every set-valued field of the merged
\* candidate is the sorted set union of that field over all input candidates
\* with that key.
C10_SortedUnionPerKey ==
    pc = "merged" =>
        \A j \in 1..Len(merged) : \A f \in SetFields :
            merged[j][f] = sorted(UnionOver(orig, IdentityKey(merged[j]), f))

\* A list that is sorted ascending and free of duplicates.
SortedNoDup(l) == l = sorted(ToSet(l))

\* C11: in every candidate merge_candidates returns, also one whose key
\* occurred only once in the input, transports, auth, tools, registries and
\* risk_flags are sorted ascending and free of duplicates.
C11_FieldsSortedNoDup ==
    pc = "merged" =>
        \A j \in 1..Len(merged) : \A f \in SetFields : SortedNoDup(merged[j][f])

\* The provenance lists of the candidates of cs with key k, from position i
\* on, concatenated in input order.
RECURSIVE ProvenanceOf(_, _, _)
ProvenanceOf(cs, k, i) ==
    IF i > Len(cs) THEN <<>>
    ELSE (IF IdentityKey(cs[i]) = k THEN cs[i].provenance ELSE <<>>)
         \o ProvenanceOf(cs, k, i + 1)

RECURSIVE ProvenanceLen(_, _, _)
ProvenanceLen(cs, k, i) ==
    IF i > Len(cs) THEN 0
    ELSE (IF IdentityKey(cs[i]) = k THEN Len(cs[i].provenance) ELSE 0)
         + ProvenanceLen(cs, k, i + 1)

\* C12: per identity key the merged provenance is the concatenation, in
\* input order, of the provenance lists of the inputs with that key; nothing
\* is dropped or deduplicated, so its length is the sum of their lengths.
C12_ProvenanceConcatenated ==
    pc = "merged" =>
        \A j \in 1..Len(merged) :
            /\ merged[j].provenance = ProvenanceOf(orig, IdentityKey(merged[j]), 1)
            /\ Len(merged[j].provenance) = ProvenanceLen(orig, IdentityKey(merged[j]), 1)

\* Three inputs of one key, two of which carry the same hit.
C12_Witness ==
    /\ pc = "merged"
    /\ Len(orig) = 3
    /\ Len(merged) = 1
    /\ Len(merged[1].provenance) = 4
    /\ Cardinality(ToSet(merged[1].provenance)) = 2

PushedAt(h) == IF "pushed_at" \in DOMAIN h.extra THEN <<h.extra["pushed_at"]>> ELSE <<>>

\* days is the number of whole days that have passed from tick p to the
\* clock of the run, 0 when p lies ahead of it.
WholeDaysSince(days, p) ==
    /\ days \in Nat
    /\ p >= NowTick => days = 0
    /\ p < NowTick =>
          /\ days * TicksPerDay <= NowTick - p
          /\ NowTick - p < (days + 1) * TicksPerDay

\* C24: normalize_candidate copes with every pushed_at: a timestamp that
\* does not parse (and a hit without one) leaves days_since_push absent, and
\* a derived days_since_push is a whole number of days, at least 0, with 0
\* for a timestamp in the future.
C24_DaysSincePush ==
    (pc # "start" /\ hits # <<>>) =>
        \A i \in 1..Len(hits) :
            LET p == PushedAt(hits[i])
                s == orig[i].signals
            IN  IF p = <<>> \/ p = <<BadTimestamp>>
                THEN "days_since_push" \notin DOMAIN s
                ELSE /\ "days_since_push" \in DOMAIN s
                     /\ WholeDaysSince(s["days_since_push"], p[1])

C24_Witness ==
    /\ pc = "cands"
    /\ \E i, j, k \in 1..Len(hits) :
          /\ PushedAt(hits[i]) = <<BadTimestamp>>
          /\ PushedAt(hits[j]) = <<NowTick + 1>>
          /\ orig[j].signals["days_since_push"] = 0
          /\ PushedAt(hits[k]) = <<2>>
          /\ orig[k].signals["days_since_push"] > 0

\* C29: merge_candidates leaves the candidates it was passed as they were,
\* so that a second call on the same list returns what the first returned.
C29_InputsUnmodified ==
    pc \in {"merged", "merged2"} =>
        /\ cands = orig
        /\ merge_candidates(cands).out = merged

-----------------------------------------------------------------------------
(* Claims about the fetch helpers (FetchSpec) *)

\* C19: a request of a fetch helper is attempted at most 3 times in total:
\* no attempt has a number above 3, and after a third failed attempt the
\* helper raises instead of sleeping for another attempt.
C19_AtMostThreeAttempts ==
    \A t \in DOMAIN task :
        /\ task[t].attempt <= 3
        /\ task[t].pc = "sleep" => task[t].attempt < 3

C19_Witness ==
    /\ helper.retry
    /\ \E t \in DOMAIN task : task[t].pc = "raised" /\ task[t].attempt = 3

\* C20: for every adapter the requests in flight are sent inside the
\* adapter's semaphore and never number more than its size, retried attempts
\* included.
C20_WithinSemaphore ==
    InFlight > 0 => helper.sem # <<>> /\ InFlight <= helper.sem[1]

-----------------------------------------------------------------------------
(* Claims about the adapters' search and the fan-out (FanOutSpec) *)

\* C14: no adapter's search propagates an error to its caller: when every
\* attempt of a request failed, search returns an empty or partial list.
C14_SearchNeverRaises == failed = {}

\* C15: the failure of one adapter does not abort discover: the call still
\* returns, every other adapter has run by then, and the hits of the
\* adapters that answered are in the result.
C15_FailureContained ==
    /\ stage # "raised"
    /\ stage = "returned" => ran = ToSet(AdapterOrder)

-----------------------------------------------------------------------------
(* Claims about the files (PersistSpec) *)

\* The text is the whole manifest some concurrent call submitted.
SubmittedText(text) == \E w \in DOMAIN proc : text = manifest_text(proc[w].manifest)

AllDone == DOMAIN proc # {} /\ \A w \in DOMAIN proc : proc[w].pc = "done"

\* C16: manifest persistence is atomic: at every point, also while two
\* update_fingerprint_and_delta calls for one server_id write concurrently,
\* the manifest file is missing or holds one complete submitted manifest,
\* and so does what a reader got; once both calls are done the file holds
\* the manifest of one of the calls that wrote.
C16_AtomicManifest ==
    /\ exists(files, ManifestPath) => SubmittedText(files[ManifestPath])
    /\ (seen # <<>> /\ seen[1] # <<>>) => SubmittedText(seen[1][1])
    /\ AllDone =>
          /\ exists(files, ManifestPath)
          /\ \E w \in DOMAIN proc :
                proc[w].wrote /\ files[ManifestPath] = manifest_text(proc[w].manifest)

\* Both calls wrote different manifests; the reader got the one that was
\* replaced afterwards.
C16_Witness ==
    /\ AllDone
    /\ \A w \in DOMAIN proc : proc[w].wrote
    /\ seen # <<>> /\ seen[1] # <<>>
    /\ seen[1][1] # files[ManifestPath]

-----------------------------------------------------------------------------
(* Claims about the candidate file (ExportSpec) and the delta log
   (DeltaLogSpec) *)

\* C17: the candidate file of a run is written atomically: what a
\* concurrent reader gets is the complete file of the earlier run (or no
\* file, if there was none) or the complete new file, never less.
C17_JsonlAtomic ==
    seen # <<>> =>
        \/ seen[1] = export.previous
        \/ seen[1] = <<jsonl_text(export.items)>>

\* C18: the delta log is append-only: after a call of append_deltas the log
\* is what it was before the call (the header, if there was no log),
\* unchanged and in place, followed by the rows of the call, each once.
C18_AppendOnly ==
    (lastAppend # <<>> /\ lastAppend.calls > 0) =>
        /\ exists(files, DeltasPath)
        /\ files[DeltasPath] =
              (IF lastAppend.before = <<>> THEN DeltasHeader ELSE lastAppend.before[1])
              \o csv_rows(lastAppend.rows)
        /\ Len(files[DeltasPath]) >= Len(DeltasHeader)
        /\ SubSeq(files[DeltasPath], 1, Len(DeltasHeader)) = DeltasHeader
        /\ ~ exists(files, DeltasTmpPath)

\* A call with two rows, one of them already in the log.
C18_Witness ==
    /\ lastAppend # <<>>
    /\ lastAppend.calls = 2
    /\ Len(lastAppend.rows) = 2
    /\ lastAppend.before # <<>>
    /\ Len(lastAppend.before[1]) > Len(DeltasHeader)
    /\ \E i \in 1..2 :
          SubSeq(lastAppend.before[1], Len(DeltasHeader) + 1, Len(lastAppend.before[1]))
             = csv_row(lastAppend.rows[i])

-----------------------------------------------------------------------------
(* Claims about the fingerprint and delta tracker (ManifestSpec) *)

TrackedKeys == ToSet(CORE_KEYS_FOR_FINGERPRINT)

\* Two manifests with the same key/value pairs, whatever the insertion order.
SameItems(a, b) == a.val = b.val

\* Two manifests that agree on every tracked key.
AgreeOnTracked(a, b) == \A k \in TrackedKeys : get(a, k) = get(b, k)

\* The file of server_id holds the manifest m.
Persisted(server_id, m) ==
    /\ store[server_id] # <<>>
    /\ SameItems(store[server_id][1], m)

FirstSighting == last.called /\ last.previous = <<>>

HashChanged ==
    /\ last.called
    /\ last.previous # <<>>
    /\ compute_sha256_for_manifest(last.previous[1]) # last.fp.sha256

HashUnchanged ==
    /\ last.called
    /\ last.previous # <<>>
    /\ compute_sha256_for_manifest(last.previous[1]) = last.fp.sha256

\* C3: with no prior manifest for the server_id the call persists the new
\* manifest and returns a Fingerprint and no Delta.
C3_FirstSightingNoDelta ==
    FirstSighting =>
        /\ Persisted(last.server_id, last.manifest)
        /\ last.writes = 1
        /\ last.fp.server_id = last.server_id
        /\ last.fp.registry = last.registry
        /\ last.fp.manifest = last.manifest
        /\ last.delta = <<>>

C3_Witness == FirstSighting /\ Len(last.manifest.order) = 2

\* C4 as stated: a Delta is created when the hash differs from the prior one
\* and also when no prior manifest exists, then with old_sha absent and
\* changed_keys all tracked keys.
C4_DeltaOnFirstSighting ==
    /\ HashChanged => last.delta # <<>>
    /\ FirstSighting =>
          /\ last.delta # <<>>
          /\ last.delta[1].old_sha = <<>>
          /\ last.delta[1].changed_keys = CORE_KEYS_FOR_FINGERPRINT

\* C4 as amended: a Delta is created exactly when a prior manifest exists
\* and the new hash differs from its hash; on a first sighting none is
\* created, although diff_keys of an absent prior lists all tracked keys.
C4_DeltaOnlyOnChange ==
    last.called =>
        /\ last.delta # <<>> <=> HashChanged
        /\ FirstSighting =>
              /\ last.delta = <<>>
              /\ diff_keys(<<>>, last.manifest) = CORE_KEYS_FOR_FINGERPRINT

C4_Witness == FirstSighting /\ "license" \in DOMAIN last.manifest.val

\* The tracked keys whose canonicalized values differ, ascending.
DifferingKeys(a, b) ==
    sorted({ k \in TrackedKeys : json_value(get(a, k)) # json_value(get(b, k)) })

\* C5: a prior manifest with a different hash: the new manifest is
\* persisted and a Delta is emitted with old_sha the prior hash, new_sha the
\* new hash and changed_keys the sorted tracked keys whose values differ
\* (non-empty; ["license"] when only license differs).
C5_ChangeEmitsDelta ==
    HashChanged =>
        /\ Persisted(last.server_id, last.manifest)
        /\ last.delta # <<>>
        /\ last.delta[1].old_sha = <<compute_sha256_for_manifest(last.previous[1])>>
        /\ last.delta[1].new_sha = compute_sha256_for_manifest(last.manifest)
        /\ last.delta[1].changed_keys = DifferingKeys(last.previous[1], last.manifest)
        /\ last.delta[1].changed_keys # <<>>
        /\ (\A k \in TrackedKeys \ {"license"} :
                get(last.previous[1], k) = get(last.manifest, k))
              => last.delta[1].changed_keys = <<"license">>

C5_Witness ==
    /\ HashChanged
    /\ last.delta # <<>>
    /\ last.delta[1].changed_keys = <<"license", "source_repo">>

\* C6: a prior manifest with the same hash: no write (the file stays as it
\* was) and no Delta, in particular for the identical manifest.
C6_UnchangedNoWrite ==
    HashUnchanged =>
        /\ last.writes = 0
        /\ store[last.server_id] = last.previous
        /\ last.delta = <<>>

C6_Witness ==
    /\ HashUnchanged
    /\ SameItems(last.previous[1], last.manifest)
    /\ "license" \in DOMAIN last.manifest.val

\* C7: compute_sha256_for_manifest does not depend on the insertion order of
\* the keys: manifests with the same key/value pairs have the same digest.
C7_InsertionOrderInvariant ==
    last.called =>
        \A m \in ManifestUniverse :
            SameItems(m, last.manifest) => compute_sha256_for_manifest(m) = last.fp.sha256

C7_Witness ==
    /\ last.called
    /\ {"license", "source_repo"} \subseteq DOMAIN last.manifest.val
    /\ \E m \in ManifestUniverse :
          SameItems(m, last.manifest) /\ m.order # last.manifest.order

\* C8: the fingerprint depends only on the tracked keys: manifests that
\* agree on them have the same hash, and resubmitting one that differs only
\* in untracked fields emits no Delta.
C8_UntrackedIgnored ==
    last.called =>
        /\ \A m \in ManifestUniverse :
              AgreeOnTracked(m, last.manifest) =>
                  compute_sha256_for_manifest(m) = last.fp.sha256
        /\ (last.previous # <<>> /\ AgreeOnTracked(last.previous[1], last.manifest))
              => last.delta = <<>>

C8_Witness ==
    /\ last.called
    /\ last.previous # <<>>
    /\ AgreeOnTracked(last.previous[1], last.manifest)
    /\ get(last.previous[1], "last_seen_iso") # get(last.manifest, "last_seen_iso")
    /\ get(last.manifest, "license") # Null

-----------------------------------------------------------------------------
(* Claims about the scorer (ScoreSpec) *)

\* The items of a list that have the score v, in the order of the list.
WithScore(items, v) == SelectSeq(items, LAMBDA x : x.score = v)

\* C21: the ranked list is in descending order of score, and the items of
\* one score stand in the order in which the input list holds them.
C21_StableDescending ==
    ranking.pc = "scored" =>
        /\ Len(ranking.heuristic) = Len(ranking.out)
        /\ \A i, j \in 1..Len(ranking.heuristic) :
              i < j => ranking.heuristic[i].score >= ranking.heuristic[j].score
        /\ \A i \in 1..Len(ranking.out) :
              WithScore(ranking.heuristic, ranking.out[i].score)
                  = WithScore(ranking.out, ranking.out[i].score)

C21_Witness ==
    /\ ranking.pc = "scored"
    /\ \E i, j, k \in 1..Len(ranking.out) :
          /\ i < j /\ j < k
          /\ ranking.out[i].score = ranking.out[j].score
          /\ ranking.out[i] # ranking.out[j]
          /\ ranking.out[k].score > ranking.out[i].score
          /\ ranking.heuristic = <<ranking.out[k], ranking.out[i], ranking.out[j]>>

\* The candidate without the signal k.
WithoutSignal(c, k) ==
    [c EXCEPT !.signals = [x \in DOMAIN c.signals \ {k} |-> c.signals[x]]]

\* The star count of a candidate, 0 when it carries none.
StarCount(c) == IF "stars" \in DOMAIN c.signals THEN c.signals["stars"] ELSE 0

IsArchived(c) == "archived" \in DOMAIN c.signals /\ c.signals["archived"] # 0

\* C22: of two candidates that differ in the star count only, the one with
\* more stars does not score less; of two that differ in the archived
\* signal only, the archived one scores less by the archived penalty.
C22_StarsAndArchived ==
    ranking.pc = "scored" =>
        \A i, j \in 1..Len(ranking.cands) :
            LET a == ranking.cands[i]
                b == ranking.cands[j]
            IN  /\ (WithoutSignal(a, "stars") = WithoutSignal(b, "stars")
                      /\ StarCount(a) <= StarCount(b))
                      => ranking.out[i].score <= ranking.out[j].score
                /\ (WithoutSignal(a, "archived") = WithoutSignal(b, "archived")
                      /\ ~ IsArchived(a) /\ IsArchived(b))
                      => ranking.out[j].score = ranking.out[i].score - ArchivedPenalty

C22_Witness ==
    /\ ranking.pc = "scored"
    /\ \E i, j, k \in 1..Len(ranking.cands) :
          /\ WithoutSignal(ranking.cands[i], "stars") = WithoutSignal(ranking.cands[j], "stars")
          /\ StarCount(ranking.cands[i]) < StarCount(ranking.cands[j])
          /\ ranking.out[i].score < ranking.out[j].score
          /\ WithoutSignal(ranking.cands[i], "archived")
                = WithoutSignal(ranking.cands[k], "archived")
          /\ ~ IsArchived(ranking.cands[i])
          /\ IsArchived(ranking.cands[k])
          /\ ranking.out[k].score < ranking.out[i].score

\* C30: of two candidates that differ in days_since_push only, the one
\* pushed longer ago does not score more; a days_since_push of 0 scores at
\* least as high as any larger value.
C30_RecencyMonotone ==
    ranking.pc = "scored" =>
        \A i, j \in 1..Len(ranking.cands) :
            LET a == ranking.cands[i]
                b == ranking.cands[j]
            IN  (/\ "days_since_push" \in DOMAIN a.signals
                 /\ "days_since_push" \in DOMAIN b.signals
                 /\ WithoutSignal(a, "days_since_push") = WithoutSignal(b, "days_since_push")
                 /\ a.signals["days_since_push"] <= b.signals["days_since_push"])
                    => ranking.out[i].score >= ranking.out[j].score

\* C23: when the re-ranking model is missing or raises, discover returns
\* the heuristic ranking as score_candidates gave it, scores and reasons
\* included, and the exception does not leave discover.
C23_DegradesToHeuristic ==
    /\ ranking.pc # "raised"
    /\ (ranking.pc = "returned" /\ ranking.exc # "")
          => ranking.returned = ranking.heuristic

C23_Witness ==
    /\ ranking.pc = "returned"
    /\ ranking.exc = "ValueError"
    /\ Len(ranking.returned) >= 2
    /\ ranking.returned[1].score > ranking.returned[2].score
    /\ ranking.returned[2].reasons # <<>>

-----------------------------------------------------------------------------
(* Claims about the security score (AuditSpec) *)

\* The lower-cased text of an Optional str field of the evidence.
LowerText(x) == lower(or_empty(x))

\* Evidence that satisfies every positive item of the rubric and raises no
\* red flag.
SatisfiesEveryItem(e) ==
    /\ e.hash_pinning
    /\ LowerText(e.auth_model) = << "m", "t", "l", "s" >>
    /\ e.maintainer_activity = <<10>>
    /\ contains(<< "s", "c", "o", "p", "e" >>, LowerText(e.risk_notes))
    /\ cve_penalty(LowerText(e.risk_notes)) = 0
    /\ e.sbom
    /\ contains(<< "r", "a", "t", "e", " ", "l", "i", "m", "i", "t" >>, LowerText(e.summary))
    /\ \/ contains(<< "o", "b", "s", "e", "r", "v", "a", "b", "i", "l", "i", "t", "y" >>, LowerText(e.summary))
       \/ contains(<< "t", "r", "a", "c", "e" >>, LowerText(e.summary))
       \/ contains(<< "l", "o", "g" >>, LowerText(e.summary))

\* C25: evidence that satisfies every positive rubric item without a red
\* flag scores exactly 100; every score lies in 0..100 and the breakdown's
\* update_cadence is at most 10.
C25_PerfectScoreAndBounds ==
    audit.pc = "scored" =>
        /\ audit.score \in 0..100
        /\ audit.breakdown["update_cadence"] <= 10
        /\ SatisfiesEveryItem(audit.evidence) => audit.score = 100

-----------------------------------------------------------------------------
(* Claims about the crawl runs (CrawlSpec) *)

\* The update calls made for a server_id, and those that emitted a Delta.
CallsFor(sid) == SelectSeq(journal, LAMBDA e : e.server_id = sid)
DeltasFor(sid) == SelectSeq(CallsFor(sid), LAMBDA e : e.delta # <<>>)

\* C26: after any sequence of update calls for a server_id the persisted
\* manifest hashes to the hash of the manifest submitted last, and every
\* Delta has an old_sha that differs from its new_sha and equals the
\* new_sha of the Delta before it (the hash of the first manifest persisted
\* for the first Delta).
C26_PersistedHashAndDeltaChain ==
    \A sid \in ServerIds :
        LET calls  == CallsFor(sid)
            deltas == DeltasFor(sid)
        IN  calls # <<>> =>
                /\ store[sid] # <<>>
                /\ compute_sha256_for_manifest(store[sid][1]) = calls[Len(calls)].sha
                /\ \A i \in 1..Len(deltas) :
                      LET d == deltas[i].delta[1]
                      IN  /\ d.old_sha # <<d.new_sha>>
                          /\ d.new_sha = deltas[i].sha
                          /\ d.old_sha = <<IF i = 1 THEN calls[1].sha
                                           ELSE deltas[i - 1].delta[1].new_sha>>

C26_Witness ==
    /\ Len(DeltasFor("s1")) >= 2
    /\ Len(CallsFor("s1")) > Len(DeltasFor("s1")) + 1
    /\ CallsFor("s1")[Len(CallsFor("s1"))].delta = <<>>
    /\ CallsFor("s1")[Len(CallsFor("s1"))].sha # CallsFor("s1")[1].sha

\* The run in progress, or the last one, started from what the previous
\* run, which completed, had started from.
SourcesUnchanged ==
    LET n == Len(crawl.history)
    IN  /\ n >= 2
        /\ crawl.history[n - 1].outcome = "done"
        /\ crawl.history[n - 1].listing = crawl.history[n].listing

\* C27: a crawl over sources that hold what they held at the previous
\* completed crawl emits no Delta.
C27_UnchangedSourcesNoDelta ==
    (crawl.pc \in {"loop", "append", "done"} /\ SourcesUnchanged) => crawl.deltas = <<>>

\* The log holds a row for the Delta d, whatever the time of the row.
RowInLog(d) ==
    /\ exists(files, DeltasPath)
    /\ \E run \in 1..MaxRuns : contains(csv_row(delta_dump(d, run)), files[DeltasPath])

\* C28: every overwrite of a manifest on a changed hash has its row in
\* deltas.csv once the run that made it, or a later run over the same
\* content, has completed.
C28_OverwriteLogged ==
    \A i \in 1..Len(journal) :
        LET e == journal[i]
        IN  (/\ e.delta # <<>>
             /\ \E r \in e.run..Len(crawl.history) :
                   /\ crawl.history[r].outcome = "done"
                   /\ crawl.history[r].listing = crawl.history[e.run].listing)
                => RowInLog(e.delta[1])

====
